---- MODULE Spec2Model ----
(***************************************************************************)
(* StingerSpaces: the validation grid                                      *)
(* (backend/reddit_archive/supabase_grid_manager.py): SupabaseGridManager  *)
(* over its two backends, the local JSON file and the Supabase tables.     *)
(*                                                                         *)
(* Data representation                                                     *)
(*   - a Python dict is a TLA+ function; where the code iterates a dict,   *)
(*     its keys are kept beside it in insertion order (comment_keys);      *)
(*   - confidence scores are floats in [0, 1]: they are kept in            *)
(*     hundredths (0.85 is 85) and the float division of line 197 is the   *)
(*     integer division of the hundredths;                                 *)
(*   - a comment text is the pair of its first 100 characters (head) and   *)
(*     what follows them (tail), so that comment_text[:100] is the head;   *)
(*   - datetime.now().isoformat() is the token "ts", None is "null";       *)
(*   - a read of the local file fails when the file is missing or cannot   *)
(*     be parsed; a write fails at open() or inside json.dump;             *)
(*   - the fields of a comment that no operation reads (created_at,        *)
(*     reddit_post_id, reddit_comment_id) and the file's metadata block    *)
(*     are left out.                                                       *)
(*                                                                         *)
(* The alias generator and the searcher's pure methods                     *)
(* (backend/src/advanced_alias_generator.py, enhanced_reddit_searcher.py)  *)
(*   - a str is a TLA+ string, a set of str a set, a tuple a tuple;        *)
(*   - alias confidences are in hundredths (0.9 is 90), fuzzy scores are   *)
(*     the integers 0..100 of fuzz.ratio, and a mention score, the product *)
(*     of the two, is in ten-thousandths (0.837 is 8370);                  *)
(*   - fuzz.ratio is computed as fuzzywuzzy does over difflib's            *)
(*     SequenceMatcher, phonetics.soundex as the phonetics package does;   *)
(*   - the order in which a set of str is iterated differs from process    *)
(*     to process: hash_seed stands for what fixes it.                     *)
(*                                                                         *)
(* The searches (enhanced_reddit_searcher.py)                              *)
(*   - Reddit is an input of a search: the posts it holds, with their      *)
(*     comments, and the requests that raise; a search request finds the   *)
(*     posts of the subreddit whose title or text holds the search term;   *)
(*   - time.time() and created_utc are kept in whole days;                 *)
(*   - issued is the list of CommentValidations a searcher method handed   *)
(*     to add_comment_validation, in the order of the calls; the           *)
(*     validations of the searcher carry reddit_post_id and                *)
(*     reddit_comment_id, which tell the results apart;                    *)
(*   - the time.sleep calls and the logging are left out.                  *)
(***************************************************************************)
EXTENDS Integers, Sequences, FiniteSets, TLC

\* ------------------------------------------------------------------ bounds

\* How many add_comment_validation calls one behaviour makes.
MaxAdds == 2

\* The entity universe load_apartments reads from the data file.
apartments == <<"A", "B">>

\* The inputs of the calls: "Z" is an entity outside the loaded universe.
PairInputs == {<<"A", "A">>, <<"A", "B">>, <<"Z", "B">>}
SourceInputs == {p[1] : p \in PairInputs}
MentionedInputs == {p[2] : p \in PairInputs}
IdInputs == {"", "c1"}
TextInputs == {[head |-> "t", tail |-> "x"]}
ScoreInputs == {60, 90}
StatusInputs == {"pending", "verified", "invalid"}
Writers == {"w1", "w2"}

Range(s) == {s[i] : i \in 1..Len(s)}

\* CommentValidation (the fields the grid manager reads).
CommentValidation ==
    {[comment_id |-> id, source_apartment |-> p[1], mentioned_apartment |-> p[2],
      comment_text |-> text, confidence_score |-> score, validation_status |-> status] :
        id \in IdInputs, p \in PairInputs, text \in TextInputs,
        score \in ScoreInputs, status \in StatusInputs}

NoValidation ==
    [comment_id |-> "", source_apartment |-> "", mentioned_apartment |-> "",
     comment_text |-> [head |-> "", tail |-> ""], confidence_score |-> 0,
     validation_status |-> ""]

\* ------------------------------------------------------------------- state

VARIABLES
    use_local_storage,  \* __init__: TRUE without Supabase credentials
    file_state,         \* the local file: "missing", "ok" or "corrupt"
    validation_grid,    \* the file's 'validation_grid' (when file_state = "ok")
    comments,           \* the file's 'comments'
    comment_keys,       \* the keys of 'comments' in insertion order
    comment_validations,\* the Supabase table comment_validations, by comment_id
    nadds,              \* add_comment_validation calls made so far
    op,                 \* the last operation called
    arg,                \* its CommentValidation (add) or apartment names
    io,                 \* what its persistence I/O did: "ok", "read_failed", "write_failed", "none"
    ret,                \* how it ended: "True", "False", "None", "dict", "list", "raised"
    ret_cell,           \* the dict get_validation_summary returned
    ret_list,           \* the list the last listing returned
    printed,            \* the pairs print_grid_summary last printed
    pre,                \* the store as it was when the last operation started
    wpc,                \* per concurrent writer: "start", "loaded", "done"
    wval,               \* per concurrent writer: its CommentValidation
    wdata,              \* per concurrent writer: the grid_data it loaded
    wret,               \* per concurrent writer: what its call returned
    location_config,    \* the alias generator's location terms and their abbreviations
    apartment_names,    \* the searcher's self.apartments, as loaded
    apartment_aliases,  \* the searcher's apartment name -> ApartmentAlias
    hash_seed,          \* what fixes the iteration order of a set of str in this process
    call,               \* the searcher or generator call under study, with its arguments
    returned,           \* whether that call has returned
    retval,             \* what it returned
    issued              \* the CommentValidations it handed to add_comment_validation, in order

vars == <<use_local_storage, file_state, validation_grid, comments, comment_keys,
          comment_validations, nadds, op, arg, io, ret, ret_cell, ret_list, printed,
          pre,
          wpc, wval, wdata, wret,
          location_config, apartment_names, apartment_aliases, hash_seed,
          call, returned, retval, issued>>

store == <<file_state, validation_grid, comments, comment_keys>>
observed == <<op, arg, io, ret, ret_cell, ret_list, printed, pre>>
writers == <<wpc, wval, wdata, wret>>
searcher == <<location_config, apartment_names, apartment_aliases, hash_seed,
              call, returned, retval, issued>>

EmptyDict == <<>>

\* --------------------------------------------------- the local JSON document

\* _initialize_local_storage: the cell every pair of the universe starts with.
ZeroCell ==
    [comment_count |-> 0, verified_comments |-> 0, confidence_sum |-> 0,
     average_confidence |-> 0, last_updated |-> "null"]

\* _initialize_local_storage: one row per apartment, one cell per apartment in it.
InitialGrid ==
    [source_apt \in Range(apartments) |->
        [target_apt \in Range(apartments) |-> ZeroCell]]

\* The same grid for any list of names.
GridOf(names) ==
    [source_apt \in Range(names) |-> [target_apt \in Range(names) |-> ZeroCell]]

\* What get_validation_summary returns for a pair the grid does not hold, and
\* on a read error: a dict of three keys.
DefaultSummary ==
    [comment_count |-> 0, verified_comments |-> 0, average_confidence |-> 0]

\* hashlib.md5(...).hexdigest(): the digest of a string, taken collision-free.
MD5(s) == "md5(" \o s \o ")"

\* comment_text[:100]
First100(text) == text.head

\* The id a validation is stored under: its own, or the digest of
\* source + mentioned + comment_text[:100] when it has none.
CommentId(v) ==
    IF v.comment_id = ""
    THEN MD5(v.source_apartment \o v.mentioned_apartment \o First100(v.comment_text))
    ELSE v.comment_id

\* The dict stored in grid_data['comments'][comment_id].
CommentData(v) ==
    [source_apartment |-> v.source_apartment,
     mentioned_apartment |-> v.mentioned_apartment,
     comment_text |-> v.comment_text,
     confidence_score |-> v.confidence_score,
     validation_status |-> v.validation_status]

\* d[k] = x on a Python dict, and what it does to the dict's key order.
SetItem(d, k, x) == (k :> x) @@ d
SetKey(keys, k) == IF k \in Range(keys) THEN keys ELSE Append(keys, k)

\* source in grid and mentioned in grid[source]
InGrid(grid, source, mentioned) ==
    source \in DOMAIN grid /\ mentioned \in DOMAIN grid[source]

\* UpdateCell with the score assigned to confidence_sum instead of added.
UpdateCell_SumAssigned(cell, v) ==
    LET count == cell.comment_count + 1
        sum == v.confidence_score
    IN  [comment_count |-> count,
         confidence_sum |-> sum,
         average_confidence |-> sum \div count,
         verified_comments |->
            IF v.validation_status = "verified"
            THEN cell.verified_comments + 1
            ELSE cell.verified_comments,
         last_updated |-> "ts"]

\* UpdateCell with the average taken before the score is added to the sum.
UpdateCell_StaleAverage(cell, v) ==
    LET count == cell.comment_count + 1
        sum == cell.confidence_sum + v.confidence_score
    IN  [comment_count |-> count,
         confidence_sum |-> sum,
         average_confidence |-> cell.confidence_sum \div count,
         verified_comments |->
            IF v.validation_status = "verified"
            THEN cell.verified_comments + 1
            ELSE cell.verified_comments,
         last_updated |-> "ts"]

\* UpdateCell with the comment_count increment moved into the else branch of
\* the status test: a verified comment is not counted.
UpdateCell_VerifiedUncounted(cell, v) ==
    LET count == IF v.validation_status = "verified"
                 THEN cell.comment_count
                 ELSE cell.comment_count + 1
        sum == cell.confidence_sum + v.confidence_score
    IN  [comment_count |-> count,
         confidence_sum |-> sum,
         average_confidence |-> IF count = 0 THEN 0 ELSE sum \div count,
         verified_comments |->
            IF v.validation_status = "verified"
            THEN cell.verified_comments + 1
            ELSE cell.verified_comments,
         last_updated |-> "ts"]

\* The statistics update of one cell.
UpdateCell(cell, v) ==
    LET count == cell.comment_count + 1
        sum == cell.confidence_sum + v.confidence_score
    IN  [comment_count |-> count,
         confidence_sum |-> sum,
         average_confidence |-> sum \div count,
         verified_comments |->
            IF v.validation_status = "verified"
            THEN cell.verified_comments + 1
            ELSE cell.verified_comments,
         last_updated |-> "ts"]

\* "Update grid statistics": only a pair the grid holds is updated.
UpdateGrid(grid, v) ==
    IF InGrid(grid, v.source_apartment, v.mentioned_apartment)
    THEN [grid EXCEPT ![v.source_apartment][v.mentioned_apartment] = UpdateCell(@, v)]
    ELSE grid

\* _add_validation_local between the load and the save: grid_data after the
\* comment is stored and the statistics are updated.
AddValidationToData(data, v) ==
    [validation_grid |-> UpdateGrid(data.validation_grid, v),
     comments |-> SetItem(data.comments, CommentId(v), CommentData(v)),
     comment_keys |-> SetKey(data.comment_keys, CommentId(v))]

\* json.load of the file: the document, when there is one to parse (a missing
\* or unparsable file raises).
Readable == file_state = "ok"
GridData ==
    [validation_grid |-> validation_grid, comments |-> comments,
     comment_keys |-> comment_keys]

Snapshot ==
    [file_state |-> file_state, validation_grid |-> validation_grid,
     comments |-> comments, comment_keys |-> comment_keys]

\* with open(path, 'w') as f: json.dump(data, f). open() truncates the file
\* before json.dump writes it: a failing open leaves the file as it was, a
\* failing dump leaves a document json.load cannot parse.
WriteFile(data, fail) ==
    CASE fail = "open" -> UNCHANGED store
      [] fail = "dump" ->
            /\ file_state' = "corrupt"
            /\ validation_grid' = EmptyDict
            /\ comments' = EmptyDict
            /\ comment_keys' = <<>>
      [] OTHER ->
            /\ file_state' = "ok"
            /\ validation_grid' = data.validation_grid
            /\ comments' = data.comments
            /\ comment_keys' = data.comment_keys

\* Where the write of one call fails, if it does: at open() or in json.dump.
\* (A read fails when the file is missing or unparsable: file_state.)
WriteFailures == {"none", "open", "dump"}

\* What one call leaves for the observer: its name, argument, I/O outcome and
\* result, and the store it started from.
Observe(name, a, outcome, result, cell, list, pairs) ==
    /\ op' = name
    /\ arg' = a
    /\ io' = outcome
    /\ ret' = result
    /\ ret_cell' = cell
    /\ ret_list' = list
    /\ printed' = pairs
    /\ pre' = Snapshot

Query(source, mentioned) ==
    [NoValidation EXCEPT !.source_apartment = source,
                         !.mentioned_apartment = mentioned]

\* ------------------------------------------------------------- create_tables

\* create_tables -> _initialize_local_storage: the file is written anew, with
\* an all-zero grid and no comments. Nothing catches an I/O error here.
InitializeLocalStorage(fail) ==
    /\ use_local_storage
    /\ WriteFile([validation_grid |-> InitialGrid, comments |-> EmptyDict,
                  comment_keys |-> <<>>], fail)
    /\ Observe("create_tables", NoValidation,
               IF fail = "none" THEN "ok" ELSE "write_failed",
               IF fail = "none" THEN "None" ELSE "raised",
               EmptyDict, <<>>, <<>>)
    /\ UNCHANGED <<searcher, use_local_storage, comment_validations, nadds, writers>>

\* create_tables -> _create_supabase_tables: the SQL is logged, nothing is run.
CreateSupabaseTables ==
    /\ ~use_local_storage
    /\ Observe("create_tables", NoValidation, "none", "None", EmptyDict, <<>>, <<>>)
    /\ UNCHANGED <<searcher, use_local_storage, store, comment_validations, nadds, writers>>

CreateTables ==
    \/ \E fail \in WriteFailures : InitializeLocalStorage(fail)
    \/ CreateSupabaseTables

\* ---------------------------------------------------- add_comment_validation

\* _add_validation_local: load, store the comment, update the cell, save;
\* any exception is logged and the call returns False.
AddValidationLocal(v, fail) ==
    /\ use_local_storage
    /\ nadds < MaxAdds
    /\ nadds' = nadds + 1
    /\ IF ~Readable
       THEN /\ UNCHANGED store
            /\ Observe("add_comment_validation", v, "read_failed", "False",
                       EmptyDict, <<>>, <<>>)
       ELSE /\ WriteFile(AddValidationToData(GridData, v), fail)
            /\ Observe("add_comment_validation", v,
                       IF fail = "none" THEN "ok" ELSE "write_failed",
                       IF fail = "none" THEN "True" ELSE "False",
                       EmptyDict, <<>>, <<>>)
    /\ UNCHANGED <<searcher, use_local_storage, comment_validations, writers>>

\* The row _add_validation_supabase inserts: comment_id is sent as it is.
SupabaseRow(v) == CommentData(v)

\* comment_validations.comment_id is UNIQUE NOT NULL: a second row with the
\* same comment_id is rejected, as is any insert the database cannot take.
InsertAccepted(v, dbfail) ==
    dbfail = "none" /\ v.comment_id \notin DOMAIN comment_validations

\* _add_validation_supabase: insert the row, then call
\* self._update_grid_cell_supabase, which the class does not define: the
\* AttributeError is caught like any other exception and the call returns False.
AddValidationSupabase(v, dbfail) ==
    /\ ~use_local_storage
    /\ nadds < MaxAdds
    /\ nadds' = nadds + 1
    /\ IF InsertAccepted(v, dbfail)
       THEN /\ comment_validations' = SetItem(comment_validations, v.comment_id, SupabaseRow(v))
            /\ Observe("add_comment_validation", v, "ok", "False", EmptyDict, <<>>, <<>>)
       ELSE /\ UNCHANGED comment_validations
            /\ Observe("add_comment_validation", v, "write_failed", "False",
                       EmptyDict, <<>>, <<>>)
    /\ UNCHANGED <<searcher, use_local_storage, store, writers>>

AddCommentValidation ==
    \E v \in CommentValidation :
        \/ \E fail \in WriteFailures : AddValidationLocal(v, fail)
        \/ \E dbfail \in {"none", "db"} : AddValidationSupabase(v, dbfail)

\* ---------------------------------------------------- get_validation_summary

\* _get_summary_local: the stored cell of a pair the grid holds; the
\* three-key default for any other pair and on any read error.
SummaryLocal(source, mentioned) ==
    IF Readable /\ InGrid(validation_grid, source, mentioned)
    THEN validation_grid[source][mentioned]
    ELSE DefaultSummary

GetSummaryLocal(source, mentioned) ==
    /\ use_local_storage
    /\ Observe("get_validation_summary", Query(source, mentioned),
               IF Readable THEN "ok" ELSE "read_failed", "dict",
               SummaryLocal(source, mentioned), <<>>, <<>>)
    /\ UNCHANGED <<searcher, use_local_storage, store, comment_validations, nadds, writers>>

\* get_validation_summary on Supabase calls self._get_summary_supabase, which
\* the class does not define: AttributeError, outside any try.
GetSummarySupabase(source, mentioned) ==
    /\ ~use_local_storage
    /\ Observe("get_validation_summary", Query(source, mentioned), "none", "raised",
               EmptyDict, <<>>, <<>>)
    /\ UNCHANGED <<searcher, use_local_storage, store, comment_validations, nadds, writers>>

GetValidationSummary ==
    \E p \in PairInputs :
        \/ GetSummaryLocal(p[1], p[2])
        \/ GetSummarySupabase(p[1], p[2])

\* ----------------------------------------- get_all_validations_for_apartment

\* _get_apartment_validations_local: the comments whose source is the
\* apartment, in the iteration order of the 'comments' dict; [] on a read error.
ApartmentValidationsLocal(apartment_name) ==
    IF Readable
    THEN LET ks == SelectSeq(comment_keys,
                     LAMBDA k : comments[k].source_apartment = apartment_name)
         IN  [i \in 1..Len(ks) |-> comments[ks[i]]]
    ELSE <<>>

GetApartmentValidationsLocal(apartment_name) ==
    /\ use_local_storage
    /\ Observe("get_all_validations_for_apartment", Query(apartment_name, ""),
               IF Readable THEN "ok" ELSE "read_failed", "list",
               EmptyDict, ApartmentValidationsLocal(apartment_name), <<>>)
    /\ UNCHANGED <<searcher, use_local_storage, store, comment_validations, nadds, writers>>

\* On Supabase the call goes to self._get_apartment_validations_supabase,
\* which the class does not define: AttributeError.
GetApartmentValidationsSupabase(apartment_name) ==
    /\ ~use_local_storage
    /\ Observe("get_all_validations_for_apartment", Query(apartment_name, ""),
               "none", "raised", EmptyDict, <<>>, <<>>)
    /\ UNCHANGED <<searcher, use_local_storage, store, comment_validations, nadds, writers>>

GetAllValidationsForApartment ==
    \E apartment_name \in SourceInputs :
        \/ GetApartmentValidationsLocal(apartment_name)
        \/ GetApartmentValidationsSupabase(apartment_name)

\* -------------------------------------------------------- print_grid_summary

\* How many pairs print_grid_summary shows: pairs[:10].
TopPairsShown == 10

\* for source in grid: for mentioned in grid[source]: the pairs in the
\* iteration order of the two dicts, which is the order of the universe.
GridPairs ==
    LET n == Len(apartments)
    IN  [k \in 1..(n * n) |->
            <<apartments[((k - 1) \div n) + 1], apartments[((k - 1) % n) + 1]>>]

PairEntry(pair) ==
    [source |-> pair[1], mentioned |-> pair[2],
     cell |-> validation_grid[pair[1]][pair[2]]]

\* list.sort(key=comment_count, reverse=True): stable, so entries of equal
\* count keep the order they had.
RECURSIVE SortByCountDesc(_)
SortByCountDesc(entries) ==
    IF Len(entries) <= 1 THEN entries
    ELSE LET sorted == SortByCountDesc(SubSeq(entries, 1, Len(entries) - 1))
             x == entries[Len(entries)]
             before == SelectSeq(sorted,
                         LAMBDA e : e.cell.comment_count >= x.cell.comment_count)
             after == SelectSeq(sorted,
                         LAMBDA e : e.cell.comment_count < x.cell.comment_count)
         IN  before \o <<x>> \o after

TopPairs ==
    IF Readable
    THEN LET held == SelectSeq(GridPairs,
                       LAMBDA p : validation_grid[p[1]][p[2]].comment_count > 0)
             pairs == SortByCountDesc([i \in 1..Len(held) |-> PairEntry(held[i])])
         IN  SubSeq(pairs, 1, IF Len(pairs) < TopPairsShown THEN Len(pairs)
                                                            ELSE TopPairsShown)
    ELSE <<>>

\* print_grid_summary: prints the top pairs of the local file; a read error
\* is logged; on Supabase it prints nothing.
PrintGridSummaryLocal ==
    /\ use_local_storage
    /\ Observe("print_grid_summary", NoValidation,
               IF Readable THEN "ok" ELSE "read_failed", "None",
               EmptyDict, <<>>, TopPairs)
    /\ UNCHANGED <<searcher, use_local_storage, store, comment_validations, nadds, writers>>

PrintGridSummarySupabase ==
    /\ ~use_local_storage
    /\ Observe("print_grid_summary", NoValidation, "none", "None", EmptyDict, <<>>, <<>>)
    /\ UNCHANGED <<searcher, use_local_storage, store, comment_validations, nadds, writers>>

PrintGridSummary ==
    \/ PrintGridSummaryLocal
    \/ PrintGridSummarySupabase

\* ------------------------------------------------------------ Python strings

\* A str is a TLA+ string; s[i-1] is Char(s, i) and s[i-1:j] is SubSeq(s, i, j).
\* The names and texts studied are ASCII and hold no whitespace but the space.
Char(s, i) == SubSeq(s, i, i)

CharsOf(s) == {Char(s, i) : i \in 1..Len(s)}

RECURSIVE Concat(_)
Concat(parts) == IF parts = <<>> THEN "" ELSE Head(parts) \o Concat(Tail(parts))

ascii_uppercase == "ABCDEFGHIJKLMNOPQRSTUVWXYZ"
ascii_lowercase == "abcdefghijklmnopqrstuvwxyz"
ascii_digits == "0123456789"

ToLower ==
    [c \in CharsOf(ascii_uppercase) |->
        Char(ascii_lowercase, CHOOSE i \in 1..Len(ascii_uppercase) : Char(ascii_uppercase, i) = c)]

ToUpper ==
    [c \in CharsOf(ascii_lowercase) |->
        Char(ascii_uppercase, CHOOSE i \in 1..Len(ascii_lowercase) : Char(ascii_lowercase, i) = c)]

\* str.lower() and str.upper(): only the letters change.
Lower(s) ==
    Concat([i \in 1..Len(s) |->
        IF Char(s, i) \in DOMAIN ToLower THEN ToLower[Char(s, i)] ELSE Char(s, i)])

Upper(s) ==
    Concat([i \in 1..Len(s) |->
        IF Char(s, i) \in DOMAIN ToUpper THEN ToUpper[Char(s, i)] ELSE Char(s, i)])

\* sub in s
In(sub, s) ==
    \E i \in 1..(Len(s) - Len(sub) + 1) : SubSeq(s, i, i + Len(sub) - 1) = sub

\* s.startswith(prefix)
StartsWith(s, prefix) ==
    Len(prefix) <= Len(s) /\ SubSeq(s, 1, Len(prefix)) = prefix

\* s.split(): the maximal runs of non-space characters.
RECURSIVE SplitFrom(_, _, _, _)
SplitFrom(s, i, word, words) ==
    LET closed == IF word = "" THEN words ELSE Append(words, word)
    IN  IF i > Len(s) THEN closed
        ELSE IF Char(s, i) = " " THEN SplitFrom(s, i + 1, "", closed)
        ELSE SplitFrom(s, i + 1, word \o Char(s, i), words)

Split(s) == SplitFrom(s, 1, "", <<>>)

\* sep.join(words)
RECURSIVE Join(_, _)
Join(sep, words) ==
    IF words = <<>> THEN ""
    ELSE IF Len(words) = 1 THEN words[1]
    ELSE words[1] \o sep \o Join(sep, Tail(words))

\* s.replace(old, new) for a non-empty old: the occurrences of old, found
\* left to right without overlap, become new.
RECURSIVE ReplaceFrom(_, _, _, _)
ReplaceFrom(s, i, old, new) ==
    IF i > Len(s) THEN ""
    ELSE IF i + Len(old) - 1 <= Len(s) /\ SubSeq(s, i, i + Len(old) - 1) = old
         THEN new \o ReplaceFrom(s, i + Len(old), old, new)
         ELSE Char(s, i) \o ReplaceFrom(s, i + 1, old, new)

Replace(s, old, new) == ReplaceFrom(s, 1, old, new)

IsDigitChar(c) == c \in CharsOf(ascii_digits)

\* w.isdigit(): non-empty and all digits.
IsDigit(w) == w # "" /\ \A c \in CharsOf(w) : IsDigitChar(c)

\* any(c.isdigit() for c in w)
AnyDigit(w) == \E c \in CharsOf(w) : IsDigitChar(c)

\* re.search(r'\d+', w).group(): the first maximal run of digits of w.
FirstDigits(w) ==
    LET start == CHOOSE i \in 1..Len(w) :
                    /\ IsDigitChar(Char(w, i))
                    /\ \A j \in 1..(i - 1) : ~IsDigitChar(Char(w, j))
        stop == CHOOSE j \in start..Len(w) :
                    /\ \A k \in start..j : IsDigitChar(Char(w, k))
                    /\ (j = Len(w) \/ ~IsDigitChar(Char(w, j + 1)))
    IN  SubSeq(w, start, stop)

\* re.sub(r'[^\w\s]', '', s): letters, digits, the underscore and whitespace stay.
IsWordChar(c) ==
    c \in CharsOf(ascii_lowercase) \cup CharsOf(ascii_uppercase)
            \cup CharsOf(ascii_digits) \cup {"_"}

StripPunctuation(s) ==
    Concat([i \in 1..Len(s) |->
        IF IsWordChar(Char(s, i)) \/ Char(s, i) = " " THEN Char(s, i) ELSE ""])

\* ''.join([c for c in word if c not in 'aeiou'])
Consonants(word) ==
    Concat([i \in 1..Len(word) |->
        IF Char(word, i) \in CharsOf("aeiou") THEN "" ELSE Char(word, i)])

\* The first characters of the words, joined.
Initials(words) == Concat([i \in 1..Len(words) |-> Char(words[i], 1)])

\* phonetics.soundex(word): the first character upper-cased, then the codes
\* of the rest (runs of one code collapsed, uncoded characters dropped), cut
\* and zero-padded to four characters. It raises on the empty string.
SoundexCode(c) ==
    CASE c \in CharsOf("bfpv") -> "1"
      [] c \in CharsOf("cgjkqsxz") -> "2"
      [] c \in CharsOf("dt") -> "3"
      [] c = "l" -> "4"
      [] c \in CharsOf("mn") -> "5"
      [] c = "r" -> "6"
      [] OTHER -> "9"

Soundex(word) ==
    LET lowered == Lower(word)
        sdx == [i \in 1..Len(word) |-> SoundexCode(Char(lowered, i))]
        starts == SelectSeq([i \in 1..Len(sdx) |-> i],
                            LAMBDA i : i = 1 \/ sdx[i] # sdx[i - 1])
        rest == Concat([k \in 1..(Len(starts) - 1) |->
                    IF sdx[starts[k + 1]] = "9" THEN "" ELSE sdx[starts[k + 1]]])
        sdx2 == Upper(Char(word, 1)) \o rest
        cut == SubSeq(sdx2, 1, IF Len(sdx2) < 4 THEN Len(sdx2) ELSE 4)
    IN  cut \o SubSeq("000", 1, 4 - Len(cut))

\* ------------------------------------------------------ AdvancedAliasGenerator

common_words ==
    {"apartment", "apartments", "apt", "apts",
     "student", "housing", "residences", "residence",
     "complex", "community", "towers", "tower",
     "lofts", "loft", "place", "plaza", "point", "pointe",
     "square", "station", "flats", "the", "at", "on", "of",
     "hall", "halls", "house", "houses", "village", "commons",
     "center", "centre", "park", "gardens", "court", "courts"}

number_words ==
    [one |-> "1", two |-> "2", three |-> "3", four |-> "4", five |-> "5",
     six |-> "6", seven |-> "7", eight |-> "8", nine |-> "9", ten |-> "10",
     eleven |-> "11", twelve |-> "12", thirteen |-> "13", fourteen |-> "14",
     fifteen |-> "15", sixteen |-> "16", seventeen |-> "17", eighteen |-> "18",
     nineteen |-> "19", twenty |-> "20", thirty |-> "30", forty |-> "40",
     fifty |-> "50", sixty |-> "60", seventy |-> "70", eighty |-> "80",
     ninety |-> "90", hundred |-> "100"]

ordinal_words ==
    [first |-> "1st", second |-> "2nd", third |-> "3rd", fourth |-> "4th",
     fifth |-> "5th", sixth |-> "6th", seventh |-> "7th", eighth |-> "8th",
     ninth |-> "9th", tenth |-> "10th", eleventh |-> "11th", twelfth |-> "12th",
     thirteenth |-> "13th", fourteenth |-> "14th", fifteenth |-> "15th",
     sixteenth |-> "16th", seventeenth |-> "17th", eighteenth |-> "18th",
     nineteenth |-> "19th", twentieth |-> "20th"]

abbreviation_patterns ==
    [apartment |-> <<"apt">>, apartments |-> <<"apts">>,
     building |-> <<"bldg">>, buildings |-> <<"bldgs">>,
     tower |-> <<"twr">>, towers |-> <<"twrs">>,
     place |-> <<"pl">>, plaza |-> <<"plz">>,
     street |-> <<"st">>, avenue |-> <<"ave">>, boulevard |-> <<"blvd">>,
     court |-> <<"ct">>, circle |-> <<"cir">>, drive |-> <<"dr">>,
     residence |-> <<"res">>, residences |-> <<"res">>,
     student |-> <<"stud">>, university |-> <<"univ", "u">>,
     college |-> <<"coll">>, campus |-> <<"camp">>]

\* The abbreviation table local to _generate_short_form_aliases.
short_form_patterns ==
    [square |-> <<"sq", "sqr">>, apartment |-> <<"apt">>, building |-> <<"bldg">>,
     tower |-> <<"twr">>, place |-> <<"pl">>, street |-> <<"st">>,
     avenue |-> <<"ave">>, court |-> <<"ct">>, circle |-> <<"cir">>,
     drive |-> <<"dr">>, station |-> <<"sta", "stn">>]

phonetic_subs ==
    {<<"ph", "f">>, <<"f", "ph">>, <<"c", "k">>, <<"k", "c">>,
     <<"z", "s">>, <<"s", "z">>, <<"i", "y">>, <<"y", "i">>}

\* create_generator_for_university: the location terms of 'generic' and of 'gt'.
location_configs ==
    [generic |-> EmptyDict,
     gt |-> ("midtown" :> <<"mid", "mdt", "midtwn">>)
         @@ ("downtown" :> <<"dwtn", "dt", "dtown">>)
         @@ ("atlanta" :> <<"atl", "atla">>)
         @@ ("west end" :> <<"we", "westend">>)
         @@ ("atlantic station" :> <<"as", "atlsta">>)
         @@ ("tech" :> <<"gt", "gatech">>)
         @@ ("georgia tech" :> <<"gt", "gatech">>)]

\* _generate_basic_aliases
BasicAliases(name) ==
    LET clean_name == Lower(name)
        words == Split(clean_name)
        filtered_words == SelectSeq(words, LAMBDA w : w \notin common_words)
    IN  (IF filtered_words # <<>> THEN {Join(" ", filtered_words)} ELSE {})
        \cup (IF StartsWith(clean_name, "the ")
              THEN {SubSeq(clean_name, 5, Len(clean_name))} ELSE {})
        \cup {StripPunctuation(clean_name)}
        \cup {Replace(clean_name, " ", "")}

\* _generate_abbreviation_aliases
AbbreviationAliases(name) ==
    LET words == Split(Lower(name))
        abbrev == Initials(SelectSeq(words, LAMBDA w : w \notin common_words))
        letters == SelectSeq(words, LAMBDA w : w \notin common_words /\ ~IsDigit(w))
        numbers == SelectSeq(words, LAMBDA w : IsDigit(w) \/ AnyDigit(w))
    IN  (IF Len(words) > 1 /\ Len(abbrev) >= 2 THEN {abbrev} ELSE {})
        \cup (IF letters # <<>> /\ numbers # <<>>
              THEN {Initials(letters) \o num : num \in Range(numbers)} ELSE {})

\* The (word, abbreviation) pairs a table holds for the words.
Abbreviations(table, words) ==
    UNION {{<<w, table[w][i]>> : i \in DOMAIN table[w]} : w \in words \cap DOMAIN table}

\* _generate_short_form_aliases: the numbers it extracts from the words.
ShortFormNumbers(words) ==
    {FirstDigits(w) : w \in {x \in Range(words) : AnyDigit(x)}}
    \cup {FirstDigits(ordinal_words[w]) : w \in Range(words) \cap DOMAIN ordinal_words}

\* _generate_short_form_aliases
ShortFormAliases(name) ==
    LET words == Split(Lower(name))
        numbers == ShortFormNumbers(words)
        main_words == SelectSeq(words,
                        LAMBDA w : w \notin common_words /\ ~AnyDigit(w))
        mains == Range(main_words)
        prefixes ==
            {Upper(SubSeq(w, 1, 2)) \o num : w \in {x \in mains : Len(x) >= 2}, num \in numbers}
            \cup {Upper(SubSeq(w, 1, 3)) \o num : w \in {x \in mains : Len(x) >= 3}, num \in numbers}
        pattern2 ==
            {Upper(Consonants(w)) \o num :
                w \in {x \in mains : Len(Consonants(x)) >= 2}, num \in numbers}
        pattern3 ==
            UNION {{Replace(Replace(Lower(name), wa[1], wa[2]), " ", "")}
                        \cup {Upper(wa[2]) \o num : num \in numbers} :
                    wa \in Abbreviations(short_form_patterns, Range(words))}
        pattern4 ==
            IF numbers # {}
            THEN prefixes
                 \cup (IF Len(main_words) >= 2
                       THEN {Upper(Initials(main_words)) \o num : num \in numbers} ELSE {})
            ELSE {}
        pattern5 ==
            UNION {{Upper(wa[2]) \o num, Lower(wa[2]) \o num} :
                    wa \in Abbreviations(abbreviation_patterns, mains), num \in numbers}
    IN  prefixes \cup pattern2 \cup pattern3 \cup pattern4 \cup pattern5

\* _generate_phonetic_aliases: phonetics.soundex raises on the empty name and
\* the bare except drops the alias.
PhoneticAliases(name) ==
    (IF name # "" THEN {Soundex(name)} ELSE {})
    \cup {Replace(Lower(name), sub[1], sub[2]) :
            sub \in {x \in phonetic_subs : In(x[1], Lower(name))}}

\* NumberAliases with a number word or an ordinal word looked for among the
\* words of the lowered name.
NumberAliases_WholeWords(name) ==
    LET name_lower == Lower(name)
        words == Range(Split(name_lower))
        found_numbers == {w \in DOMAIN number_words : w \in words}
        found_ordinals == {w \in DOMAIN ordinal_words : w \in words}
        suffix_cut(ordinal) == SubSeq(ordinal, 1, Len(ordinal) - 2)
    IN  {Replace(name_lower, w, number_words[w]) : w \in found_numbers}
        \cup {Replace(name_lower, w, ordinal_words[w]) : w \in found_ordinals}
        \cup {Replace(name_lower, w, suffix_cut(ordinal_words[w])) : w \in found_ordinals}

\* _generate_number_aliases: a number word or an ordinal word is looked for
\* as a substring of the lowered name.
NumberAliases(name) ==
    LET name_lower == Lower(name)
        found_numbers == {w \in DOMAIN number_words : In(w, name_lower)}
        found_ordinals == {w \in DOMAIN ordinal_words : In(w, name_lower)}
        suffix_cut(ordinal) == SubSeq(ordinal, 1, Len(ordinal) - 2)
    IN  {Replace(name_lower, w, number_words[w]) : w \in found_numbers}
        \cup {Replace(name_lower, w, ordinal_words[w]) : w \in found_ordinals}
        \cup {Replace(name_lower, w, suffix_cut(ordinal_words[w])) : w \in found_ordinals}

\* _generate_location_aliases
LocationAliases(name) ==
    LET name_lower == Lower(name)
        found == {ta \in Abbreviations(location_config, DOMAIN location_config) :
                    In(Lower(ta[1]), name_lower)}
        alias(ta) == Replace(name_lower, Lower(ta[1]), Lower(ta[2]))
    IN  {alias(ta) : ta \in found} \cup {Replace(alias(ta), " ", "") : ta \in found}

\* d[k] = x for every k of keys, on a dict d.
SetItems(d, keys, x) == [k \in keys |-> x] @@ d

\* AllAliases with every pass keeping the higher of its weight and what an
\* alias had.
AllAliases_HighestKept(apartment_name) ==
    LET RaiseItems(d, keys, x) ==
            [k \in keys |-> IF k \in DOMAIN d /\ d[k] > x THEN d[k] ELSE x] @@ d
        basic_aliases == BasicAliases(apartment_name)
        abbrev_aliases == AbbreviationAliases(apartment_name)
        short_aliases == ShortFormAliases(apartment_name)
        phonetic_aliases == PhoneticAliases(apartment_name)
        number_aliases == NumberAliases(apartment_name)
        location_aliases == LocationAliases(apartment_name)
        original == SetItems(EmptyDict, {Lower(apartment_name)}, 100)
        pass1 == RaiseItems(original, basic_aliases, 90)
        pass2 == RaiseItems(pass1, abbrev_aliases, 80)
        pass3 == RaiseItems(pass2, short_aliases, 70)
        pass4 == RaiseItems(pass3, phonetic_aliases, 60)
        pass5 == RaiseItems(pass4, number_aliases, 85)
        pass6 == RaiseItems(pass5, location_aliases, 75)
    IN  [original_name |-> apartment_name,
         aliases |-> {Lower(apartment_name)} \cup basic_aliases \cup abbrev_aliases
                        \cup short_aliases \cup phonetic_aliases
                        \cup number_aliases \cup location_aliases,
         confidence_scores |-> pass6]

\* generate_all_aliases: the lowered name at 1.0, then the six passes in
\* their order, each writing its weight over whatever an alias had.
AllAliases(apartment_name) ==
    LET basic_aliases == BasicAliases(apartment_name)
        abbrev_aliases == AbbreviationAliases(apartment_name)
        short_aliases == ShortFormAliases(apartment_name)
        phonetic_aliases == PhoneticAliases(apartment_name)
        number_aliases == NumberAliases(apartment_name)
        location_aliases == LocationAliases(apartment_name)
        original == SetItems(EmptyDict, {Lower(apartment_name)}, 100)
        pass1 == SetItems(original, basic_aliases, 90)
        pass2 == SetItems(pass1, abbrev_aliases, 80)
        pass3 == SetItems(pass2, short_aliases, 70)
        pass4 == SetItems(pass3, phonetic_aliases, 60)
        pass5 == SetItems(pass4, number_aliases, 85)
        pass6 == SetItems(pass5, location_aliases, 75)
    IN  [original_name |-> apartment_name,
         aliases |-> {Lower(apartment_name)} \cup basic_aliases \cup abbrev_aliases
                        \cup short_aliases \cup phonetic_aliases
                        \cup number_aliases \cup location_aliases,
         confidence_scores |-> pass6]

\* ---------------------------------------------------------- fuzzywuzzy.fuzz

\* int(round(num / den)): a half goes to the even neighbour.
Intr(num, den) ==
    LET q == num \div den
        r == num % den
    IN  IF 2 * r > den \/ (2 * r = den /\ q % 2 = 1) THEN q + 1 ELSE q

\* How far a[i..] and b[j..] agree, inside a[..ahi] and b[..bhi].
MatchLength(a, b, i, j, ahi, bhi) ==
    LET room == IF ahi - i < bhi - j THEN ahi - i + 1 ELSE bhi - j + 1
    IN  CHOOSE k \in 0..room :
            /\ SubSeq(a, i, i + k - 1) = SubSeq(b, j, j + k - 1)
            /\ (k = room \/ Char(a, i + k) # Char(b, j + k))

\* difflib.SequenceMatcher.find_longest_match: the longest block a[alo..ahi]
\* and b[blo..bhi] share; of the longest, the one that starts earliest in a,
\* and of those the one that starts earliest in b.
LongestMatch(a, b, alo, ahi, blo, bhi) ==
    LET blocks == {<<MatchLength(a, b, p[1], p[2], ahi, bhi), p[1], p[2]>> :
                    p \in {q \in (alo..ahi) \X (blo..bhi) : Char(a, q[1]) = Char(b, q[2])}}
    IN  IF blocks = {} THEN <<0, alo, blo>>
        ELSE CHOOSE m \in blocks :
                \A n \in blocks :
                    \/ m[1] > n[1]
                    \/ m[1] = n[1] /\ m[2] < n[2]
                    \/ m[1] = n[1] /\ m[2] = n[2] /\ m[3] <= n[3]

\* The total size of SequenceMatcher.get_matching_blocks: the longest block,
\* then the same to its left and to its right.
RECURSIVE MatchingSize(_, _, _, _, _, _)
MatchingSize(a, b, alo, ahi, blo, bhi) ==
    IF alo > ahi \/ blo > bhi THEN 0
    ELSE LET m == LongestMatch(a, b, alo, ahi, blo, bhi)
         IN  IF m[1] = 0 THEN 0
             ELSE m[1] + MatchingSize(a, b, alo, m[2] - 1, blo, m[3] - 1)
                       + MatchingSize(a, b, m[2] + m[1], ahi, m[3] + m[1], bhi)

\* fuzz.ratio(s1, s2): 100 for equal strings, 0 when one is empty, else
\* int(round(100 * 2.0 * M / T)) with M the matched characters and T the
\* total length.
Ratio(s1, s2) ==
    IF s1 = s2 THEN 100
    ELSE IF s1 = "" \/ s2 = "" THEN 0
    ELSE Intr(200 * MatchingSize(s1, s2, 1, Len(s1), 1, Len(s2)), Len(s1) + Len(s2))

\* ---------------------------------------------------------- Python containers

\* d.get(k, default)
Get(d, k, default) == IF k \in DOMAIN d THEN d[k] ELSE default

\* The order in which this process iterates a set of str (or of tuples of
\* str): one arbitrary order, turned by the hash seed.
RECURSIVE SetToSeq(_)
SetToSeq(S) ==
    IF S = {} THEN <<>>
    ELSE LET e == CHOOSE y \in S : TRUE
         IN  <<e>> \o SetToSeq(S \ {e})

IterationOrder(S) ==
    LET base == SetToSeq(S)
        n == Len(base)
    IN  [i \in 1..n |-> base[((i - 1 + hash_seed) % n) + 1]]

\* list.sort(key=lambda x: x[1], reverse=True): stable, so entries of equal
\* key keep the order they had.
RECURSIVE SortBySecondDesc(_)
SortBySecondDesc(entries) ==
    IF Len(entries) <= 1 THEN entries
    ELSE LET sorted == SortBySecondDesc(SubSeq(entries, 1, Len(entries) - 1))
             last == entries[Len(entries)]
         IN  SelectSeq(sorted, LAMBDA e : e[2] >= last[2])
                \o <<last>>
                \o SelectSeq(sorted, LAMBDA e : e[2] < last[2])

\* FirstN with the cut one entry too late.
FirstN_OneMore(entries, n) ==
    SubSeq(entries, 1, IF Len(entries) < n + 1 THEN Len(entries) ELSE n + 1)

\* entries[:n]
FirstN(entries, n) ==
    SubSeq(entries, 1, IF Len(entries) < n THEN Len(entries) ELSE n)

\* -------------------------------------------- AdvancedAliasGenerator matching

\* None, as the alias of a match no alias scored for.
None == "None"

\* find_best_match, one alias: 100 for the lowered search term itself, else
\* the fuzzy ratio.
MatchScore(search_term_lower, alias) ==
    IF search_term_lower = alias THEN 100 ELSE Ratio(search_term_lower, alias)

\* EntityMatch with every alias taken as the best so far: the last one stays.
EntityMatch_LastAlias(search_term_lower, apt_alias) ==
    LET order == IterationOrder(apt_alias.aliases)
        last == order[Len(order)]
    IN  <<apt_alias.original_name, MatchScore(search_term_lower, last), last,
          Get(apt_alias.confidence_scores, last, 50)>>

\* find_best_match, one ApartmentAlias: the first alias, in iteration order,
\* of the highest score above 0; None when no alias scores above 0.
EntityMatch(search_term_lower, apt_alias) ==
    LET order == IterationOrder(apt_alias.aliases)
        scores == [i \in 1..Len(order) |-> MatchScore(search_term_lower, order[i])]
        best_score == CHOOSE s \in Range(scores) \cup {0} :
                        \A t \in Range(scores) \cup {0} : s >= t
        best == CHOOSE i \in 1..Len(order) :
                    /\ scores[i] = best_score
                    /\ \A j \in 1..(i - 1) : scores[j] < best_score
    IN  IF best_score > 0
        THEN <<apt_alias.original_name, best_score, order[best],
               Get(apt_alias.confidence_scores, order[best], 50)>>
        ELSE <<apt_alias.original_name, 0, None, 0>>

\* ClearsThreshold with the test dropped.
ClearsThreshold_Ignored(score, threshold) == TRUE

\* best_score >= threshold
ClearsThreshold(score, threshold) == score >= threshold

\* find_best_match
BestMatch(search_term, aliases_list, threshold) ==
    LET search_term_lower == Lower(search_term)
        all == [i \in 1..Len(aliases_list) |->
                    EntityMatch(search_term_lower, aliases_list[i])]
        matches == SelectSeq(all, LAMBDA m : ClearsThreshold(m[2], threshold))
    IN  SortBySecondDesc(matches)

\* ------------------------------------------------------ EnhancedRedditSearcher

\* A mention score is a confidence (hundredths) times a ratio (0..100): it is
\* kept in ten-thousandths, 0.6 being 6000. No product of a pass weight and a
\* ratio below 100 is 6000, so the comparison with 0.6 is exact.
MinimumConfidence == 6000

\* AliasScore with a fuzzy hit scored at the full confidence of the alias.
AliasScore_UnscaledFuzzy(alias, confidence, text_lower) ==
    IF In(alias, text_lower) THEN confidence * 100
    ELSE IF Len(alias) > 4
         THEN LET words_in_text == Split(text_lower)
                  ratios == [i \in 1..Len(words_in_text) |->
                                Ratio(alias, words_in_text[i])]
                  hits == SelectSeq(ratios, LAMBDA fuzzy_score : fuzzy_score >= 85)
              IN  IF hits # <<>> THEN confidence * 100 ELSE 0
         ELSE 0

\* _find_mentioned_apartments, one alias: its confidence when it occurs in
\* the lowered text; for an alias of more than 4 characters, the confidence
\* scaled by the ratio of the first word of the text that reaches 85; else 0.
AliasScore(alias, confidence, text_lower) ==
    IF In(alias, text_lower) THEN confidence * 100
    ELSE IF Len(alias) > 4
         THEN LET words_in_text == Split(text_lower)
                  ratios == [i \in 1..Len(words_in_text) |->
                                Ratio(alias, words_in_text[i])]
                  hits == SelectSeq(ratios, LAMBDA fuzzy_score : fuzzy_score >= 85)
              IN  IF hits # <<>> THEN confidence * hits[1] ELSE 0
         ELSE 0

\* _find_mentioned_apartments, one apartment: the best score of its aliases.
BestAliasScore(aliases, text_lower) ==
    LET scores == {AliasScore(alias, Get(aliases.confidence_scores, alias, 50), text_lower) :
                    alias \in aliases.aliases} \cup {0}
    IN  CHOOSE s \in scores : \A t \in scores : s >= t

\* _find_mentioned_apartments: the apartments whose best score reaches 0.6,
\* with that score.
MentionedApartments(text) ==
    LET text_lower == Lower(text)
        known == {apt_name \in Range(apartment_names) : apt_name \in DOMAIN apartment_aliases}
        best == [apt_name \in known |->
                    BestAliasScore(apartment_aliases[apt_name], text_lower)]
        mentioned == {apt_name \in known : best[apt_name] >= MinimumConfidence}
    IN  [apt_name \in mentioned |-> best[apt_name]]

\* How many search terms generate_search_terms returns: search_terms[:10].
SearchTermsShown == 10

\* generate_search_terms
SearchTerms(apartment_name) ==
    IF apartment_name \notin DOMAIN apartment_aliases
    THEN << <<Lower(apartment_name), 100>> >>
    ELSE LET aliases == apartment_aliases[apartment_name]
             confidence(alias) == Get(aliases.confidence_scores, alias, 50)
             search_terms ==
                {<<Lower(apartment_name), 100>>}
                \cup {<<alias, confidence(alias)>> :
                        alias \in {x \in aliases.aliases : confidence(x) >= 80}}
                \cup {<<alias, confidence(alias)>> :
                        alias \in {x \in aliases.aliases :
                                    60 <= confidence(x) /\ confidence(x) < 80}}
         IN  FirstN(SortBySecondDesc(IterationOrder(search_terms)), SearchTermsShown)

\* The context keywords of __init__: a set of str.
housing_context_keywords ==
    {"housing", "apartment", "living", "rent", "lease", "roommate",
     "move", "dorm", "residence", "amenities", "price", "cost",
     "utilities", "parking", "location", "campus", "walk", "shuttle",
     "noise", "quiet", "party", "management", "maintenance", "gym",
     "pool", "laundry", "kitchen", "bedroom", "bathroom", "balcony"}

\* ContextCount with every occurrence of a keyword counted.
ContextCount_Occurrences(text_lower) ==
    Cardinality({<<keyword, i>> \in housing_context_keywords \X (1..Len(text_lower)) :
                    /\ i + Len(keyword) - 1 <= Len(text_lower)
                    /\ SubSeq(text_lower, i, i + Len(keyword) - 1) = keyword})

\* sum(1 for keyword in self.housing_context_keywords if keyword in text_lower)
ContextCount(text_lower) ==
    Cardinality({keyword \in housing_context_keywords : In(keyword, text_lower)})

\* How many keywords a text must hold: context_count >= 2.
ContextKeywordsNeeded == 2

\* _has_housing_context
HasHousingContext(text) == ContextCount(Lower(text)) >= ContextKeywordsNeeded
\* ----------------------------------------------- the search and its results

\* Times are kept in whole days since the epoch (time.time() and created_utc
\* are seconds): Now is the day the search runs.
Now == 20397

\* days_back, the default of search_reddit_for_apartment.
days_back == 365

\* time_threshold = time.time() - (days_back * 24 * 60 * 60)
time_threshold == Now - days_back

\* The last day datetime.fromtimestamp accepts (31 December 9999): it raises
\* on a later one.
MaxTimestamp == 2932896

\* The search configuration of __init__.
target_subreddits == <<"gatech", "Atlanta", "GeorgiaTech", "college">>
max_posts_per_search == 100
max_comments_per_post == 50
min_comment_length == 20

\* list.extend over a list of lists.
RECURSIVE Flatten(_)
Flatten(lists) ==
    IF lists = <<>> THEN <<>> ELSE Head(lists) \o Flatten(Tail(lists))

\* f"{post.title} {getattr(post, 'selftext', '')}"
PostText(post) == post.title \o " " \o post.selftext

\* subreddit.search(search_term, limit=...): the posts of the subreddit that
\* Reddit finds for the term, here those whose title or text holds it; the
\* request raises where reddit.raising says so.
SearchRaises(reddit, term_index, subreddit_name) ==
    <<term_index, subreddit_name>> \in reddit.raising

Found(reddit, subreddit_name, search_term) ==
    FirstN(SelectSeq(reddit.posts,
                     LAMBDA post : /\ subreddit_name \in post.subreddits
                                   /\ In(search_term, Lower(PostText(post)))),
           max_posts_per_search)

\* The RedditSearchResult of a post (comment_id "") or of a comment, built
\* when apartments were found in the text; the list of it, or the empty list.
ResultsOfMentions(text, subreddit_name, source_apartment, search_term, mentioned_apts) ==
    IF DOMAIN mentioned_apts # {}
    THEN << [post_id |-> text.post_id,
             comment_id |-> text.comment_id,
             comment_text |-> text.text,
             subreddit |-> subreddit_name,
             created_utc |-> text.created_utc,
             score |-> text.score,
             source_apartment |-> source_apartment,
             mentioned_apartments |->
                SelectSeq(apartment_names, LAMBDA apt : apt \in DOMAIN mentioned_apts),
             confidence_scores |-> mentioned_apts,
             search_term_used |-> search_term] >>
    ELSE <<>>

\* A text is analysed when it has housing context.
ResultsOfText(text, subreddit_name, source_apartment, search_term) ==
    ResultsOfMentions(text, subreddit_name, source_apartment, search_term,
                      IF HasHousingContext(text.text)
                      THEN MentionedApartments(text.text) ELSE EmptyDict)

\* The comments loop of one post: replace_more may raise, which ends the
\* post's comments; the first max_comments_per_post comments that are long
\* and recent enough are analysed.
CountedComments(post) ==
    IF post.comments_raise THEN <<>>
    ELSE FirstN(SelectSeq(post.comments,
                          LAMBDA comment : /\ Len(comment.body) >= min_comment_length
                                           /\ comment.created_utc >= time_threshold),
                max_comments_per_post)

\* The texts of one post that are analysed, in order: the post itself, then
\* its comments; none for a post older than the threshold.
AnalysedTexts(post) ==
    IF post.created_utc < time_threshold THEN <<>>
    ELSE << [post_id |-> post.id, comment_id |-> "", text |-> PostText(post),
             created_utc |-> post.created_utc, score |-> post.score] >>
         \o [i \in 1..Len(CountedComments(post)) |->
                [post_id |-> post.id,
                 comment_id |-> CountedComments(post)[i].id,
                 text |-> CountedComments(post)[i].body,
                 created_utc |-> CountedComments(post)[i].created_utc,
                 score |-> CountedComments(post)[i].score]]

\* The texts of the posts found, in order.
TextsOf(posts) == Flatten([i \in 1..Len(posts) |-> AnalysedTexts(posts[i])])

\* The results of a list of texts.
ResultsOfTexts(texts, subreddit_name, source_apartment, search_term) ==
    Flatten([i \in 1..Len(texts) |->
                ResultsOfText(texts[i], subreddit_name, source_apartment, search_term)])

\* _search_subreddit: the results of the posts found; an exception of the
\* search is logged and what was collected is returned.
SearchSubreddit(reddit, subreddit_name, search_term, term_index, source_apartment) ==
    IF SearchRaises(reddit, term_index, subreddit_name) THEN <<>>
    ELSE ResultsOfTexts(TextsOf(Found(reddit, subreddit_name, search_term)),
                        subreddit_name, source_apartment, search_term)

\* The requests of a search in order: every search term, and for each every
\* subreddit.
Requests(search_terms) ==
    Flatten([k \in 1..Len(search_terms) |->
                [s \in 1..Len(target_subreddits) |->
                    [term_index |-> k, search_term |-> search_terms[k][1],
                     subreddit_name |-> target_subreddits[s]]]])

\* The results of a list of requests.
ResultsOfRequests(reddit, requests, source_apartment) ==
    Flatten([r \in 1..Len(requests) |->
                SearchSubreddit(reddit, requests[r].subreddit_name, requests[r].search_term,
                                requests[r].term_index, source_apartment)])

\* RequestsMade with the search given up at the first request that raises.
RECURSIVE RequestsMade_GivenUp(_, _)
RequestsMade_GivenUp(reddit, requests) ==
    IF requests = <<>> THEN <<>>
    ELSE IF SearchRaises(reddit, Head(requests).term_index, Head(requests).subreddit_name)
         THEN <<>>
         ELSE <<Head(requests)>> \o RequestsMade_GivenUp(reddit, Tail(requests))

\* The requests a search makes: all of them, a request that raises is caught
\* and the loops go on.
RequestsMade(reddit, requests) == requests

\* search_reddit_for_apartment, the loops of lines 140-157: all_results.
CollectResults(reddit, apartment_name) ==
    ResultsOfRequests(reddit, RequestsMade(reddit, Requests(SearchTerms(apartment_name))),
                      apartment_name)

\* ResultKey with the post alone as the key.
ResultKey_PostOnly(result) == result.post_id

\* key = f"{result.post_id}_{result.comment_id}"
ResultKey(result) == result.post_id \o "_" \o result.comment_id

\* _deduplicate_results: the loop over the results, with the keys seen and
\* the results kept so far.
RECURSIVE DeduplicateFrom(_, _, _)
DeduplicateFrom(results, seen, unique_results) ==
    IF results = <<>> THEN unique_results
    ELSE LET key == ResultKey(Head(results))
         IN  IF key \notin seen
             THEN DeduplicateFrom(Tail(results), seen \cup {key},
                                  Append(unique_results, Head(results)))
             ELSE DeduplicateFrom(Tail(results), seen, unique_results)

DeduplicateResults(results) == DeduplicateFrom(results, {}, <<>>)

\* OtherApartments with the source apartment left in.
OtherApartments_SourceKept(result, source_apartment) == result.mentioned_apartments

\* [apt for apt in result.mentioned_apartments if apt != source_apartment]
OtherApartments(result, source_apartment) ==
    SelectSeq(result.mentioned_apartments, LAMBDA apt : apt # source_apartment)

\* The score of a mention whose apartment has none recorded: 0.5.
DefaultConfidence == 5000

\* A comment text as the grid manager keeps it: its first 100 characters and
\* the rest.
TextOf(s) ==
    [head |-> SubSeq(s, 1, IF Len(s) < 100 THEN Len(s) ELSE 100),
     tail |-> SubSeq(s, 101, Len(s))]

\* The CommentValidation _validate_results builds for one mentioned apartment.
ValidationOf(result, source_apartment, mentioned_apt) ==
    [comment_id |-> "",
     source_apartment |-> source_apartment,
     mentioned_apartment |-> mentioned_apt,
     comment_text |-> TextOf(result.comment_text),
     confidence_score |-> Get(result.confidence_scores, mentioned_apt, DefaultConfidence),
     validation_status |-> "pending",
     reddit_post_id |-> result.post_id,
     reddit_comment_id |-> result.comment_id]

\* datetime.fromtimestamp(result.created_utc) raises on a day it cannot hold.
FromTimestampRaises(result) == result.created_utc > MaxTimestamp

\* _validate_results: the loop over the results, with the results validated
\* and the validations handed to add_comment_validation so far. The list
\* returned, the validations in the order they were handed over, and whether
\* the loop was left by an exception.
RECURSIVE ValidateFrom(_, _, _, _)
ValidateFrom(results, source_apartment, validated_results, validations) ==
    IF results = <<>>
    THEN [validated_results |-> validated_results, validations |-> validations,
          raised |-> FALSE]
    ELSE LET other_apartments == OtherApartments(Head(results), source_apartment)
         IN  IF other_apartments # <<>>
             THEN IF FromTimestampRaises(Head(results))
                  THEN [validated_results |-> validated_results,
                        validations |-> validations, raised |-> TRUE]
                  ELSE ValidateFrom(Tail(results), source_apartment,
                                    Append(validated_results, Head(results)),
                                    validations \o
                                        [i \in 1..Len(other_apartments) |->
                                            ValidationOf(Head(results), source_apartment,
                                                         other_apartments[i])])
             ELSE IF source_apartment \in Range(Head(results).mentioned_apartments)
                  THEN ValidateFrom(Tail(results), source_apartment,
                                    Append(validated_results, Head(results)), validations)
                  ELSE ValidateFrom(Tail(results), source_apartment,
                                    validated_results, validations)

ValidateResults(results, source_apartment) ==
    ValidateFrom(results, source_apartment, <<>>, <<>>)

\* search_reddit_for_apartment: collect, deduplicate, validate.
SearchRedditFor(reddit, apartment_name) ==
    ValidateResults(DeduplicateResults(CollectResults(reddit, apartment_name)),
                    apartment_name)

\* What a searcher method leaves: the value it returns ("raised" for an
\* exception) and the validations it handed to add_comment_validation.
Outcome(run) ==
    [value |-> IF run.raised THEN "raised" ELSE run.validated_results,
     validations |-> run.validations]

\* search_all_apartments after one apartment's search: a search that raises
\* leaves [] for its apartment (the validations it handed over before stay).
AfterSearch(so_far, apartment, run) ==
    [value |-> SetItem(so_far.value, apartment,
                       IF run.raised THEN <<>> ELSE run.validated_results),
     validations |-> so_far.validations \o run.validations]

\* search_all_apartments: the loop over self.apartments, with the dict built
\* and the validations handed over so far.
RECURSIVE SearchAllFrom(_, _, _)
SearchAllFrom(reddit, todo, so_far) ==
    IF todo = <<>> THEN so_far
    ELSE SearchAllFrom(reddit, Tail(todo),
                       AfterSearch(so_far, Head(todo), SearchRedditFor(reddit, Head(todo))))

SearchAll(reddit) ==
    SearchAllFrom(reddit, apartment_names, [value |-> EmptyDict, validations |-> <<>>])

\* One add_comment_validation on the local document, as a function of it
\* (_add_validation_local with WriteFile's outcomes).
AddedLocal(document, v, fail) ==
    IF document.file_state # "ok" THEN document
    ELSE CASE fail = "open" -> document
           [] fail = "dump" ->
                [file_state |-> "corrupt", validation_grid |-> EmptyDict,
                 comments |-> EmptyDict, comment_keys |-> <<>>]
           [] OTHER ->
                [file_state |-> "ok"] @@ AddValidationToData(document, v)

\* One add_comment_validation on the Supabase table, as a function of it.
AddedSupabase(rows, v, fail) ==
    IF fail = "none" /\ v.comment_id \notin DOMAIN rows
    THEN SetItem(rows, v.comment_id, SupabaseRow(v))
    ELSE rows

\* The add_comment_validation calls of one search, in order, each with the
\* failure that meets it.
RECURSIVE AddAllLocal(_, _, _)
AddAllLocal(document, validations, fails) ==
    IF validations = <<>> THEN document
    ELSE AddAllLocal(AddedLocal(document, Head(validations), Head(fails)),
                     Tail(validations), Tail(fails))

RECURSIVE AddAllSupabase(_, _, _)
AddAllSupabase(rows, validations, fails) ==
    IF validations = <<>> THEN rows
    ELSE AddAllSupabase(AddedSupabase(rows, Head(validations), Head(fails)),
                        Tail(validations), Tail(fails))
\* ------------------------------------------- the searcher and its generator

\* The names apartment_data.json may hold (load_apartment_data keeps
\* apt['name'] of each entry); the empty list is also what a failed load leaves.
DataFiles ==
    {<<"Catalyst Midtown", "Square On 5th">>,
     <<"Inspire", "Five Points", "The Mark's">>,
     <<>>}

\* The university the searcher is built for.
Universities == {"generic", "gt"}

\* The hash seeds of the processes studied: 0..MaxSeed.
MaxSeed == 1

\* The arguments of the calls studied.
NameInputs ==
    {"Square On 5th", "Catalyst Midtown", "Five Points", "The Mark's", "Inspire", "",
     "Stone Ridge", "West End Lofts"}
SearchTexts ==
    {"I lived at Catalyst but my friend was at SQ5",
     "square on 5th has great rent",
     "moving to catalistmidtown soon",
     "fyve poynts is loud",
     "my friend at ynspyr pays less",
     ""}
SearchTermInputs ==
    {"Square on 5th", "sq5", "catalyst", "five pts", "zzz", ""}
ThresholdInputs == {0, 70, 80, 100}
ContextTexts ==
    {"Random comment about pizza",
     "The rent and parking here are great",
     "rent, rent and more rent",
     "PARKING near CAMPUS",
     "my parents moved",
     "Is the lease worth it?",
     ""}

Calls ==
    {[op |-> "generate_all_aliases", apartment_name |-> n] : n \in NameInputs}
    \cup {[op |-> "generate_search_terms", apartment_name |-> n] : n \in NameInputs}
    \cup {[op |-> "find_mentioned_apartments", text |-> t] : t \in SearchTexts}
    \cup {[op |-> "find_best_match", search_term |-> s, threshold |-> t] :
            s \in SearchTermInputs, t \in ThresholdInputs}
    \cup {[op |-> "_has_housing_context", text |-> t] : t \in ContextTexts}

NoCall == [op |-> "none"]

\* The searcher is not part of the behaviour: nothing loaded, no call.
SearcherIdle ==
    /\ location_config = EmptyDict
    /\ apartment_names = <<>>
    /\ apartment_aliases = EmptyDict
    /\ hash_seed = 0
    /\ call = NoCall
    /\ returned = TRUE
    /\ retval = <<>>
    /\ issued = <<>>

\* load_apartment_data: an ApartmentAlias for every name of the data file.
LoadedAliases ==
    [apt_name \in Range(apartment_names) |-> AllAliases(apt_name)]

\* The list main() hands to find_best_match: the ApartmentAlias of every
\* apartment, in the order of the data file.
AllAliasesList ==
    [i \in 1..Len(apartment_names) |-> apartment_aliases[apartment_names[i]]]

Return(value) ==
    /\ retval' = value
    /\ returned' = TRUE
    /\ UNCHANGED <<location_config, apartment_names, apartment_aliases, hash_seed, call, issued>>
    /\ UNCHANGED <<use_local_storage, store, comment_validations, nadds, observed, writers>>

GenerateAllAliases ==
    /\ ~returned
    /\ call.op = "generate_all_aliases"
    /\ Return(AllAliases(call.apartment_name))

GenerateSearchTerms ==
    /\ ~returned
    /\ call.op = "generate_search_terms"
    /\ Return(SearchTerms(call.apartment_name))

FindMentionedApartments ==
    /\ ~returned
    /\ call.op = "find_mentioned_apartments"
    /\ Return(MentionedApartments(call.text))

FindBestMatch ==
    /\ ~returned
    /\ call.op = "find_best_match"
    /\ Return(BestMatch(call.search_term, AllAliasesList, call.threshold))

CheckHousingContext ==
    /\ ~returned
    /\ call.op = "_has_housing_context"
    /\ Return(HasHousingContext(call.text))

\* ------------------------------------------------------- the searches studied

\* What Reddit holds: posts with their comments, and the search requests
\* (number of the search term, subreddit) that raise.
Comments ==
    [c1 |-> [id |-> "c1", body |-> "5th has cheap rent, parking",
             created_utc |-> Now - 1, score |-> 2],
     c2 |-> [id |-> "c2", body |-> "rent is high",
             created_utc |-> Now - 1, score |-> 1],
     c3 |-> [id |-> "c3", body |-> "Catalyst rent and parking",
             created_utc |-> Now - 400, score |-> 1],
     c4 |-> [id |-> "c4", body |-> "The Mark's gym, Inspire pool",
             created_utc |-> Now - 2, score |-> 3]]

Posts ==
    [p1 |-> [id |-> "p1", title |-> "Catalyst Midtown or 5th?",
             selftext |-> "rent gym",
             created_utc |-> Now - 1, score |-> 5, subreddits |-> {"gatech"},
             comments |-> <<Comments.c1, Comments.c2, Comments.c3>>,
             comments_raise |-> FALSE],
     p2 |-> [id |-> "p2", title |-> "Five Points lease",
             selftext |-> "quiet Inspire",
             created_utc |-> Now - 2, score |-> 4, subreddits |-> {"gatech", "Atlanta"},
             comments |-> <<Comments.c4>>,
             comments_raise |-> FALSE],
     p3 |-> [id |-> "p3", title |-> "Catalyst Midtown rent, gym",
             selftext |-> "",
             created_utc |-> Now - 400, score |-> 1, subreddits |-> {"GeorgiaTech"},
             comments |-> <<Comments.c1>>,
             comments_raise |-> FALSE],
     p4 |-> [id |-> "p4", title |-> "5th or Catalyst Midtown",
             selftext |-> "lease, rent",
             created_utc |-> MaxTimestamp + 1, score |-> 1, subreddits |-> {"Atlanta"},
             comments |-> <<>>,
             comments_raise |-> FALSE]]

RedditWorlds ==
    {[posts |-> <<Posts.p1, Posts.p2, Posts.p3>>, raising |-> {}],
     [posts |-> <<Posts.p1, Posts.p2, Posts.p3>>,
      raising |-> {<<1, "gatech">>} \cup {<<k, "college">> : k \in 1..SearchTermsShown}],
     [posts |-> <<[Posts.p1 EXCEPT !.comments_raise = TRUE],
                  [Posts.p2 EXCEPT !.comments_raise = TRUE]>>,
      raising |-> {}],
     [posts |-> <<Posts.p1, Posts.p4>>, raising |-> {}]}

\* The apartments searched for one by one.
SearchedNames == {"Catalyst Midtown", "Five Points"}

\* Lists handed to _validate_results directly: a cross-reference, a result
\* that mentions nothing, and one that mentions its source alone; a result
\* that mentions two other apartments, one of them without a score.
ResultLists ==
    {<< [post_id |-> "p1", comment_id |-> "", comment_text |-> "rent and parking at Square On 5th",
         subreddit |-> "gatech", created_utc |-> Now - 1, score |-> 1,
         source_apartment |-> "Catalyst Midtown",
         mentioned_apartments |-> <<"Catalyst Midtown", "Square On 5th">>,
         confidence_scores |-> [a \in {"Catalyst Midtown", "Square On 5th"} |-> 9000],
         search_term_used |-> "catalyst midtown"],
        [post_id |-> "p2", comment_id |-> "", comment_text |-> "rent and parking",
         subreddit |-> "gatech", created_utc |-> Now - 1, score |-> 1,
         source_apartment |-> "Catalyst Midtown",
         mentioned_apartments |-> <<>>,
         confidence_scores |-> EmptyDict,
         search_term_used |-> "catalyst midtown"],
        [post_id |-> "p2", comment_id |-> "c1", comment_text |-> "rent and parking at Catalyst Midtown",
         subreddit |-> "gatech", created_utc |-> Now - 1, score |-> 1,
         source_apartment |-> "Catalyst Midtown",
         mentioned_apartments |-> <<"Catalyst Midtown">>,
         confidence_scores |-> [a \in {"Catalyst Midtown"} |-> 10000],
         search_term_used |-> "catalyst midtown"] >>,
     << [post_id |-> "p3", comment_id |-> "c2", comment_text |-> "Inspire or Square On 5th for rent",
         subreddit |-> "Atlanta", created_utc |-> Now - 3, score |-> 2,
         source_apartment |-> "Catalyst Midtown",
         mentioned_apartments |-> <<"Inspire", "Square On 5th">>,
         confidence_scores |-> [a \in {"Inspire"} |-> 6300],
         search_term_used |-> "cm"] >>}

SearchCalls ==
    {[op |-> "search_reddit_for_apartment", apartment_name |-> n, reddit |-> w] :
        n \in SearchedNames, w \in RedditWorlds}
    \cup {[op |-> "search_all_apartments", reddit |-> w] : w \in RedditWorlds}
    \cup {[op |-> "_validate_results", results |-> r, source_apartment |-> "Catalyst Midtown"] :
            r \in ResultLists}

\* A searcher method returns: its value, and the add_comment_validation calls
\* it made, each of which met its own failure, if any; the store after the
\* last of them. (The grid manager's record of its last single call is kept
\* for the behaviours that call it directly.)
Hand(outcome) ==
    /\ retval' = outcome.value
    /\ returned' = TRUE
    /\ issued' = outcome.validations
    /\ nadds' = nadds + Len(outcome.validations)
    /\ IF use_local_storage
       THEN \E fails \in [1..Len(outcome.validations) -> WriteFailures] :
               \E document \in {AddAllLocal(Snapshot, outcome.validations, fails)} :
                   /\ file_state' = document.file_state
                   /\ validation_grid' = document.validation_grid
                   /\ comments' = document.comments
                   /\ comment_keys' = document.comment_keys
                   /\ UNCHANGED comment_validations
       ELSE \E fails \in [1..Len(outcome.validations) -> {"none", "db"}] :
               /\ comment_validations' =
                    AddAllSupabase(comment_validations, outcome.validations, fails)
               /\ UNCHANGED store
    /\ UNCHANGED <<location_config, apartment_names, apartment_aliases, hash_seed, call>>
    /\ UNCHANGED <<use_local_storage, observed, writers>>

\* search_reddit_for_apartment: the validated results, or the exception that
\* left it.
SearchRedditForApartment ==
    /\ ~returned
    /\ call.op = "search_reddit_for_apartment"
    /\ Hand(Outcome(SearchRedditFor(call.reddit, call.apartment_name)))

\* search_all_apartments: the dict of every apartment's results.
SearchAllApartments ==
    /\ ~returned
    /\ call.op = "search_all_apartments"
    /\ Hand(SearchAll(call.reddit))

\* _validate_results on a list of results.
ValidateResultsCall ==
    /\ ~returned
    /\ call.op = "_validate_results"
    /\ Hand(Outcome(ValidateResults(call.results, call.source_apartment)))

\* ------------------------------------------------------------ specification

\* After __init__: the backend is chosen by the credentials; the constructor
\* writes nothing, so the local file is whatever was there: here, nothing.
GridInit ==
    /\ use_local_storage \in BOOLEAN
    /\ file_state = "missing"
    /\ validation_grid = EmptyDict
    /\ comments = EmptyDict
    /\ comment_keys = <<>>
    /\ comment_validations = EmptyDict
    /\ nadds = 0
    /\ op = "init"
    /\ arg = NoValidation
    /\ io = "none"
    /\ ret = "None"
    /\ ret_cell = EmptyDict
    /\ ret_list = <<>>
    /\ printed = <<>>
    /\ pre = [file_state |-> "missing", validation_grid |-> EmptyDict,
              comments |-> EmptyDict, comment_keys |-> <<>>]
    /\ wpc = [w \in Writers |-> "start"]
    /\ wval = [w \in Writers |-> NoValidation]
    /\ wdata = [w \in Writers |-> [validation_grid |-> EmptyDict,
                                    comments |-> EmptyDict, comment_keys |-> <<>>]]
    /\ wret = [w \in Writers |-> "None"]

Init == GridInit /\ SearcherIdle

Next ==
    \/ CreateTables
    \/ AddCommentValidation
    \/ GetValidationSummary
    \/ GetAllValidationsForApartment
    \/ PrintGridSummary

Spec == Init /\ [][Next]_vars

\* ------------------------------------------------------- concurrent writers

\* Two processes each make one _add_validation_local call on the same file.
\* The call takes no lock: its json.load and its json.dump are separate
\* steps, and another process may run between them.

\* with open(path, 'r') as f: grid_data = json.load(f)
WriterLoad(w, v) ==
    /\ wpc[w] = "start"
    /\ wval' = [wval EXCEPT ![w] = v]
    /\ IF Readable
       THEN /\ wdata' = [wdata EXCEPT ![w] = GridData]
            /\ wpc' = [wpc EXCEPT ![w] = "loaded"]
            /\ UNCHANGED wret
       ELSE /\ wret' = [wret EXCEPT ![w] = "False"]
            /\ wpc' = [wpc EXCEPT ![w] = "done"]
            /\ UNCHANGED wdata
    /\ UNCHANGED <<searcher, use_local_storage, store, comment_validations, nadds, observed>>

\* The update of the loaded grid_data and json.dump(grid_data, f).
WriterSave(w, fail) ==
    /\ wpc[w] = "loaded"
    /\ WriteFile(AddValidationToData(wdata[w], wval[w]), fail)
    /\ wret' = [wret EXCEPT ![w] = IF fail = "none" THEN "True" ELSE "False"]
    /\ wpc' = [wpc EXCEPT ![w] = "done"]
    /\ UNCHANGED <<searcher, use_local_storage, comment_validations, nadds, observed, wval, wdata>>

\* The local backend after create_tables has initialized the file.
InitConc ==
    /\ use_local_storage = TRUE
    /\ file_state = "ok"
    /\ validation_grid = InitialGrid
    /\ comments = EmptyDict
    /\ comment_keys = <<>>
    /\ comment_validations = EmptyDict
    /\ nadds = 0
    /\ op = "create_tables"
    /\ arg = NoValidation
    /\ io = "ok"
    /\ ret = "None"
    /\ ret_cell = EmptyDict
    /\ ret_list = <<>>
    /\ printed = <<>>
    /\ pre = [file_state |-> "missing", validation_grid |-> EmptyDict,
              comments |-> EmptyDict, comment_keys |-> <<>>]
    /\ wpc = [w \in Writers |-> "start"]
    /\ wval = [w \in Writers |-> NoValidation]
    /\ wdata = [w \in Writers |-> [validation_grid |-> EmptyDict,
                                    comments |-> EmptyDict, comment_keys |-> <<>>]]
    /\ wret = [w \in Writers |-> "None"]
    /\ SearcherIdle

NextConc ==
    \E w \in Writers :
        \/ \E v \in CommentValidation : WriterLoad(w, v)
        \/ \E fail \in WriteFailures : WriterSave(w, fail)

SpecConc == InitConc /\ [][NextConc]_vars

\* ------------------------------------------------ validations without an id

\* A data file whose names run into each other when written one after the
\* other, and the validations studied over it: none carries a comment id.
DerivedIdNames == <<"A", "B", "BC">>
DerivedIdPairs == {<<"A", "B">>, <<"A", "BC">>}
DerivedIdTexts == {[head |-> "Ct", tail |-> "x"], [head |-> "t", tail |-> "x"]}

DerivedIdValidations ==
    {[comment_id |-> "", source_apartment |-> p[1], mentioned_apartment |-> p[2],
      comment_text |-> text, confidence_score |-> score, validation_status |-> "pending"] :
        p \in DerivedIdPairs, text \in DerivedIdTexts, score \in ScoreInputs}

\* After create_tables over that data file: the local file holds the all-zero
\* grid of its names and no comment; the Supabase table is empty.
InitDerivedIds ==
    /\ use_local_storage \in BOOLEAN
    /\ file_state = "ok"
    /\ validation_grid = GridOf(DerivedIdNames)
    /\ comments = EmptyDict
    /\ comment_keys = <<>>
    /\ comment_validations = EmptyDict
    /\ nadds = 0
    /\ op = "create_tables"
    /\ arg = NoValidation
    /\ io = "ok"
    /\ ret = "None"
    /\ ret_cell = EmptyDict
    /\ ret_list = <<>>
    /\ printed = <<>>
    /\ pre = [file_state |-> "missing", validation_grid |-> EmptyDict,
              comments |-> EmptyDict, comment_keys |-> <<>>]
    /\ wpc = [w \in Writers |-> "start"]
    /\ wval = [w \in Writers |-> NoValidation]
    /\ wdata = [w \in Writers |-> [validation_grid |-> EmptyDict,
                                    comments |-> EmptyDict, comment_keys |-> <<>>]]
    /\ wret = [w \in Writers |-> "None"]
    /\ SearcherIdle

\* add_comment_validation of a validation that carries no comment id.
AddWithoutId ==
    \E v \in DerivedIdValidations :
        \/ \E fail \in WriteFailures : AddValidationLocal(v, fail)
        \/ \E dbfail \in {"none", "db"} : AddValidationSupabase(v, dbfail)

NextDerivedIds == AddWithoutId

SpecDerivedIds == InitDerivedIds /\ [][NextDerivedIds]_vars
\* ---------------------------------------------- the searcher's pure functions

\* After EnhancedRedditSearcher.__init__: the generator is configured for the
\* university, the grid manager is built and the data file is loaded. One
\* call of the searcher or of its generator is then made.
InitSearcher ==
    /\ GridInit
    /\ \E university \in Universities : location_config = location_configs[university]
    /\ apartment_names \in DataFiles
    /\ hash_seed \in 0..MaxSeed
    /\ apartment_aliases = LoadedAliases
    /\ call \in Calls
    /\ returned = FALSE
    /\ retval = <<>>
    /\ issued = <<>>

NextSearcher ==
    \/ GenerateAllAliases
    \/ GenerateSearchTerms
    \/ FindMentionedApartments
    \/ FindBestMatch
    \/ CheckHousingContext

SpecSearcher == InitSearcher /\ [][NextSearcher]_vars

\* ------------------------------------------------------ the searcher's searches

\* After EnhancedRedditSearcher.__init__, with the local file either absent
\* or written by an earlier create_tables over the same data file. One
\* search is then made.
InitSearch ==
    /\ use_local_storage \in BOOLEAN
    /\ \E university \in Universities : location_config = location_configs[university]
    /\ apartment_names \in DataFiles
    /\ hash_seed \in 0..MaxSeed
    /\ apartment_aliases = LoadedAliases
    /\ \/ /\ file_state = "missing"
          /\ validation_grid = EmptyDict
       \/ /\ use_local_storage
          /\ file_state = "ok"
          /\ validation_grid = GridOf(apartment_names)
    /\ comments = EmptyDict
    /\ comment_keys = <<>>
    /\ comment_validations = EmptyDict
    /\ nadds = 0
    /\ op = "init"
    /\ arg = NoValidation
    /\ io = "none"
    /\ ret = "None"
    /\ ret_cell = EmptyDict
    /\ ret_list = <<>>
    /\ printed = <<>>
    /\ pre = [file_state |-> "missing", validation_grid |-> EmptyDict,
              comments |-> EmptyDict, comment_keys |-> <<>>]
    /\ wpc = [w \in Writers |-> "start"]
    /\ wval = [w \in Writers |-> NoValidation]
    /\ wdata = [w \in Writers |-> [validation_grid |-> EmptyDict,
                                    comments |-> EmptyDict, comment_keys |-> <<>>]]
    /\ wret = [w \in Writers |-> "None"]
    /\ call \in SearchCalls
    /\ returned = FALSE
    /\ retval = <<>>
    /\ issued = <<>>

NextSearch ==
    \/ SearchRedditForApartment
    \/ SearchAllApartments
    \/ ValidateResultsCall

SpecSearch == InitSearch /\ [][NextSearch]_vars
\* ------------------------------------------------------------------ properties

\* The ids of the stored comments of one pair.
RecordsFor(source, mentioned) ==
    {id \in DOMAIN comments :
        /\ comments[id].source_apartment = source
        /\ comments[id].mentioned_apartment = mentioned}

LocalFileOk == use_local_storage /\ file_state = "ok"

Added == op = "add_comment_validation" /\ ret = "True"

\* C1: on an initialized grid, the comment_count of every cell equals the
\* number of distinct comment ids stored for its pair, so recording an id that
\* is already stored does not count again.
C1_CountIsDistinctIds ==
    LocalFileOk =>
        \A source \in DOMAIN validation_grid :
            \A mentioned \in DOMAIN validation_grid[source] :
                validation_grid[source][mentioned].comment_count
                    = Cardinality(RecordsFor(source, mentioned))

\* C2: one successful add_comment_validation of a new comment on a pair the
\* grid holds adds 1 to that cell's comment_count and the comment's score to
\* its confidence_sum, adds 1 to verified_comments exactly when the status is
\* 'verified', and changes no other cell.
C2_OneRecordOneCell ==
    LET source == arg.source_apartment
        mentioned == arg.mentioned_apartment
    IN  (/\ Added
         /\ CommentId(arg) \notin DOMAIN pre.comments
         /\ InGrid(pre.validation_grid, source, mentioned))
        =>
        LET old == pre.validation_grid[source][mentioned]
            new == validation_grid[source][mentioned]
        IN  /\ new.comment_count = old.comment_count + 1
            /\ new.confidence_sum = old.confidence_sum + arg.confidence_score
            /\ new.verified_comments - old.verified_comments
                    = (IF arg.validation_status = "verified" THEN 1 ELSE 0)
            /\ DOMAIN validation_grid = DOMAIN pre.validation_grid
            /\ \A s \in DOMAIN validation_grid :
                    /\ DOMAIN validation_grid[s] = DOMAIN pre.validation_grid[s]
                    /\ \A m \in DOMAIN validation_grid[s] :
                            <<s, m>> # <<source, mentioned>>
                                => validation_grid[s][m] = pre.validation_grid[s][m]

\* A second new comment has just been recorded on (A, B), a verified one,
\* while (A, A) holds a count of its own.
C2_Witness ==
    /\ Added
    /\ arg.source_apartment = "A" /\ arg.mentioned_apartment = "B"
    /\ arg.validation_status = "verified"
    /\ CommentId(arg) \notin DOMAIN pre.comments
    /\ InGrid(pre.validation_grid, "A", "B")
    /\ pre.validation_grid["A"]["B"].comment_count = 1
    /\ validation_grid["A"]["B"].comment_count = 2

\* C3: when two writers run add_comment_validation concurrently with two
\* different comment ids and both return True, both comments are stored and,
\* if both target the same cell, its comment_count has grown by 2 and its
\* confidence_sum by both scores (the grid started all-zero).
C3_NoLostUpdate ==
    LET v1 == wval["w1"]
        v2 == wval["w2"]
    IN  (/\ \A w \in Writers : wpc[w] = "done" /\ wret[w] = "True"
         /\ CommentId(v1) # CommentId(v2))
        =>
        /\ {CommentId(v1), CommentId(v2)} \subseteq DOMAIN comments
        /\ (/\ v1.source_apartment = v2.source_apartment
            /\ v1.mentioned_apartment = v2.mentioned_apartment
            /\ InGrid(InitialGrid, v1.source_apartment, v1.mentioned_apartment))
           =>
           LET cell == validation_grid[v1.source_apartment][v1.mentioned_apartment]
           IN  /\ cell.comment_count = 2
               /\ cell.confidence_sum = v1.confidence_score + v2.confidence_score

\* C4: after a successful add_comment_validation on a pair the grid did not
\* hold, get_validation_summary of the pair reports a comment_count of at
\* least 1 and the comment's confidence.
C4_GridGrows ==
    LET source == arg.source_apartment
        mentioned == arg.mentioned_apartment
    IN  (Added /\ ~InGrid(pre.validation_grid, source, mentioned))
        =>
        /\ SummaryLocal(source, mentioned).comment_count >= 1
        /\ SummaryLocal(source, mentioned).average_confidence > 0

\* C5: once a stored comment's validation_status is 'verified' or 'invalid',
\* no operation changes it to another value.
C5_TerminalStatus ==
    [][\A id \in DOMAIN comments :
            (/\ comments[id].validation_status \in {"verified", "invalid"}
             /\ id \in DOMAIN comments')
            => comments'[id].validation_status = comments[id].validation_status]_vars

\* C6: across the grid manager's operations (here: those whose I/O does not
\* fail) no stored comment is removed and no cell's comment_count decreases.
C6_OnlyAccumulates ==
    [][io' = "ok" =>
        /\ DOMAIN comments \subseteq DOMAIN comments'
        /\ \A s \in DOMAIN validation_grid :
                \A m \in DOMAIN validation_grid[s] :
                    /\ InGrid(validation_grid', s, m)
                    /\ validation_grid'[s][m].comment_count
                            >= validation_grid[s][m].comment_count]_vars

\* C7: every cell has average_confidence = confidence_sum / comment_count when
\* comment_count > 0, and average_confidence = 0 = confidence_sum when
\* comment_count = 0.
C7_AverageIsSumOverCount ==
    \A s \in DOMAIN validation_grid :
        \A m \in DOMAIN validation_grid[s] :
            LET cell == validation_grid[s][m]
            IN  IF cell.comment_count > 0
                THEN cell.average_confidence
                        = cell.confidence_sum \div cell.comment_count
                ELSE cell.average_confidence = 0 /\ cell.confidence_sum = 0

\* A cell that holds two comments of different scores, beside an empty one.
C7_Witness ==
    /\ LocalFileOk
    /\ validation_grid["A"]["B"].comment_count = 2
    /\ validation_grid["A"]["B"].confidence_sum = 150
    /\ validation_grid["A"]["B"].average_confidence = 75
    /\ validation_grid["B"]["A"].comment_count = 0

\* C8: every cell has 0 <= verified_comments <= comment_count.
C8_VerifiedWithinCount ==
    \A s \in DOMAIN validation_grid :
        \A m \in DOMAIN validation_grid[s] :
            /\ 0 <= validation_grid[s][m].verified_comments
            /\ validation_grid[s][m].verified_comments
                    <= validation_grid[s][m].comment_count

\* A cell with one verified comment among two.
C8_Witness ==
    /\ LocalFileOk
    /\ validation_grid["A"]["B"].comment_count = 2
    /\ validation_grid["A"]["B"].verified_comments = 1

\* C9: add_comment_validation never raises, returns False only when reading
\* or writing the backing store failed, and returns True whenever the store
\* took the read and the write, on either backend.
C9_FalseOnlyOnIOError ==
    op = "add_comment_validation" =>
        /\ ret # "raised"
        /\ ret = "False" => io \in {"read_failed", "write_failed"}
        /\ io = "ok" => ret = "True"

\* C10: get_validation_summary always returns a cell, and for a pair with no
\* stored comment the cell is the zero cell with the fields of an initialized
\* cell.
C10_SummaryNeverFails ==
    op = "get_validation_summary" =>
        /\ ret = "dict"
        /\ RecordsFor(arg.source_apartment, arg.mentioned_apartment) = {}
                => ret_cell = ZeroCell

\* The position of the first stored comment of a pair in the insertion order
\* of the comments (0 when the pair has none).
FirstRecorded(source, mentioned) ==
    LET at == {i \in 1..Len(comment_keys) : comment_keys[i] \in RecordsFor(source, mentioned)}
    IN  IF at = {} THEN 0 ELSE CHOOSE i \in at : \A j \in at : i <= j

\* Every add_comment_validation so far stored a comment under a key of its
\* own: the insertion order of the comments is the order of the calls, and
\* each comment still carries the pair it was recorded with.
NothingOverwritten == LocalFileOk /\ nadds = Len(comment_keys)

\* C11: print_grid_summary lists the pairs whose comment_count is positive,
\* by comment_count descending, and pairs of equal comment_count in the order
\* in which they were first recorded.
C11_TiesByFirstObservation ==
    (op = "print_grid_summary" /\ NothingOverwritten)
    =>
    /\ {<<printed[i].source, printed[i].mentioned>> : i \in 1..Len(printed)}
            = {p \in Range(GridPairs) :
                    validation_grid[p[1]][p[2]].comment_count > 0}
    /\ \A i, j \in 1..Len(printed) :
            i < j =>
                \/ printed[i].cell.comment_count > printed[j].cell.comment_count
                \/ /\ printed[i].cell.comment_count = printed[j].cell.comment_count
                   /\ FirstRecorded(printed[i].source, printed[i].mentioned)
                        < FirstRecorded(printed[j].source, printed[j].mentioned)

\* The stored comments of one source apartment, each once, in the order in
\* which their ids were first inserted.
StoredForSource(apartment_name) ==
    LET ks == SelectSeq(comment_keys,
                LAMBDA k : comments[k].source_apartment = apartment_name)
    IN  [i \in 1..Len(ks) |-> comments[ks[i]]]

\* C12: get_all_validations_for_apartment returns a list, and the list holds
\* exactly the stored comments whose source_apartment is the name, each once,
\* in the order in which their ids were first inserted.
C12_ListsStoredInInsertionOrder ==
    op = "get_all_validations_for_apartment" =>
        /\ ret = "list"
        /\ LocalFileOk => ret_list = StoredForSource(arg.source_apartment)

\* What a searcher or generator call has returned.
Returned(name) == returned /\ call.op = name

\* C13: the ApartmentAlias generate_all_aliases returns for a name holds the
\* lowered name among its aliases, with confidence 1.0.
C13_LoweredNameAtFullConfidence ==
    Returned("generate_all_aliases") =>
        /\ Lower(call.apartment_name) \in retval.aliases
        /\ retval.confidence_scores[Lower(call.apartment_name)] = 100

\* C14: when the lowered form of an alias of a loaded apartment occurs in the
\* lowered text, the apartment's mention score is at least the confidence of
\* that alias: the apartment is reported whenever that confidence is >= 0.6.
C14_AliasesMatchInAnyCase ==
    Returned("find_mentioned_apartments") =>
        \A apt_name \in Range(apartment_names) :
            \A alias \in apartment_aliases[apt_name].aliases :
                LET confidence == apartment_aliases[apt_name].confidence_scores[alias]
                IN  (In(Lower(alias), Lower(call.text)) /\ confidence >= 60)
                    => /\ apt_name \in DOMAIN retval
                       /\ retval[apt_name] >= confidence * 100

\* C15: for the text "I lived at Catalyst but my friend was at SQ5" and the
\* apartments Catalyst Midtown and Square On 5th, _find_mentioned_apartments
\* reports both, each with a score >= 0.6.
C15_CatalystAndSQ5 ==
    (/\ Returned("find_mentioned_apartments")
     /\ call.text = "I lived at Catalyst but my friend was at SQ5"
     /\ apartment_names = <<"Catalyst Midtown", "Square On 5th">>)
    =>
    /\ DOMAIN retval = {"Catalyst Midtown", "Square On 5th"}
    /\ \A apt_name \in DOMAIN retval : retval[apt_name] >= MinimumConfidence

\* The score of one alias as C16 words it: the confidence on a literal hit in
\* the lowered text; for an alias of more than 4 characters that a token of
\* the text matches with a ratio >= 85, the confidence times the ratio of the
\* first such token; 0 otherwise. In ten-thousandths.
PerAliasScore(alias, confidence, text) ==
    LET tokens == Split(Lower(text))
        fuzzy == {i \in 1..Len(tokens) : Ratio(alias, tokens[i]) >= 85}
        first == CHOOSE i \in fuzzy : \A j \in fuzzy : i <= j
    IN  IF In(alias, Lower(text)) THEN confidence * 100
        ELSE IF Len(alias) > 4 /\ fuzzy # {} THEN confidence * Ratio(alias, tokens[first])
        ELSE 0

\* The maximum of the per-alias scores of one loaded apartment.
MaxAliasScore(apt_name, text) ==
    LET aliases == apartment_aliases[apt_name]
        scores == {PerAliasScore(alias, aliases.confidence_scores[alias], text) :
                    alias \in aliases.aliases}
    IN  CHOOSE s \in scores : \A t \in scores : s >= t

\* C16: _find_mentioned_apartments reports a loaded apartment exactly when the
\* maximum of its per-alias scores is >= 0.6, and reports that maximum: every
\* reported score lies in [0.6, 1.0].
C16_ReportsMaximumFromThreshold ==
    Returned("find_mentioned_apartments") =>
        /\ DOMAIN retval \subseteq Range(apartment_names)
        /\ \A apt_name \in Range(apartment_names) :
                /\ apt_name \in DOMAIN retval
                        <=> MaxAliasScore(apt_name, call.text) >= 6000
                /\ apt_name \in DOMAIN retval
                        => /\ retval[apt_name] = MaxAliasScore(apt_name, call.text)
                           /\ 6000 <= retval[apt_name] /\ retval[apt_name] <= 10000

\* A fuzzy hit is reported (catalistmidtown for the alias catalystmidtown,
\* ratio 93 at confidence 0.9) and Square On 5th, without a hit, is not.
C16_Witness ==
    /\ Returned("find_mentioned_apartments")
    /\ call.text = "moving to catalistmidtown soon"
    /\ apartment_names = <<"Catalyst Midtown", "Square On 5th">>
    /\ DOMAIN retval = {"Catalyst Midtown"}
    /\ retval["Catalyst Midtown"] = 8370

\* The highest score the aliases of one ApartmentAlias reach for a search term.
HighestScore(search_term, apt_alias) ==
    LET scores == {MatchScore(Lower(search_term), alias) : alias \in apt_alias.aliases}
                    \cup {0}
    IN  CHOOSE s \in scores : \A t \in scores : s >= t

\* The apartment names of a list of matches.
Matched(matches) == {matches[i][1] : i \in 1..Len(matches)}

\* C17: find_best_match returns no apartment whose highest alias score is
\* below the threshold, and what it returns at a higher threshold, for the
\* same search term and aliases, is among what it returns at this one.
C17_ThresholdMonotone ==
    Returned("find_best_match") =>
        /\ \A apt_name \in Matched(retval) :
                HighestScore(call.search_term, apartment_aliases[apt_name])
                    >= call.threshold
        /\ \A higher \in {t \in ThresholdInputs : t >= call.threshold} :
                Matched(BestMatch(call.search_term, AllAliasesList, higher))
                    \subseteq Matched(retval)

\* At threshold 80 "five pts" matches Five Points (84) and no other
\* apartment; at threshold 100 it matches none.
C17_Witness ==
    /\ Returned("find_best_match")
    /\ call.search_term = "five pts"
    /\ call.threshold = 80
    /\ apartment_names = <<"Inspire", "Five Points", "The Mark's">>
    /\ Matched(retval) = {"Five Points"}
    /\ retval[1][2] = 84
    /\ BestMatch(call.search_term, AllAliasesList, 100) = <<>>

\* Where an apartment stands in the list handed to find_best_match.
InputPosition(apt_name) ==
    CHOOSE i \in 1..Len(apartment_names) : apartment_names[i] = apt_name

\* C18: find_best_match returns at most one match per ApartmentAlias, each
\* with the highest score of its aliases (100 when the lowered search term is
\* one of them), by score descending, matches of equal score in input order.
C18_OneBestMatchEachSorted ==
    Returned("find_best_match") =>
        /\ \A i, j \in 1..Len(retval) :
                i < j =>
                    /\ retval[i][1] # retval[j][1]
                    /\ \/ retval[i][2] > retval[j][2]
                       \/ /\ retval[i][2] = retval[j][2]
                          /\ InputPosition(retval[i][1]) < InputPosition(retval[j][1])
        /\ \A i \in 1..Len(retval) :
                LET apt_alias == apartment_aliases[retval[i][1]]
                IN  /\ retval[i][2] = HighestScore(call.search_term, apt_alias)
                    /\ Lower(call.search_term) \in apt_alias.aliases
                            => retval[i][2] = 100

\* An exact match (100) listed before an apartment that stood before it in
\* the input.
C18_Witness ==
    /\ Returned("find_best_match")
    /\ call.search_term = "Square on 5th"
    /\ call.threshold = 0
    /\ Len(retval) = 2
    /\ retval[1][1] = "Square On 5th" /\ retval[1][2] = 100
    /\ retval[2][1] = "Catalyst Midtown" /\ retval[2][2] < 100
    /\ InputPosition("Catalyst Midtown") < InputPosition("Square On 5th")

\* C19: generate_search_terms returns at most 10 (term, confidence) entries,
\* by confidence non-increasing, the first being the lowered apartment name
\* with confidence 1.0.
C19_TenTermsNameFirst ==
    Returned("generate_search_terms") =>
        /\ Len(retval) <= 10
        /\ \A i, j \in 1..Len(retval) : i < j => retval[i][2] >= retval[j][2]
        /\ Len(retval) >= 1
        /\ retval[1] = <<Lower(call.apartment_name), 100>>

\* Catalyst Midtown under the 'gt' locations has 15 candidate entries: 10
\* are returned.
C19_Witness ==
    /\ Returned("generate_search_terms")
    /\ call.apartment_name = "Catalyst Midtown"
    /\ call.apartment_name \in DOMAIN apartment_aliases
    /\ Cardinality(apartment_aliases[call.apartment_name].aliases) = 14
    /\ Len(retval) = 10

\* C20: no term is in two entries of the list generate_search_terms returns.
C20_NoTermTwice ==
    Returned("generate_search_terms") =>
        \A i, j \in 1..Len(retval) : i < j => retval[i][1] # retval[j][1]

\* The housing context keywords that occur in a text, whatever its case.
KeywordsHit(text) ==
    {keyword \in housing_context_keywords :
        \E i \in 1..(Len(text) - Len(keyword) + 1) :
            Lower(SubSeq(text, i, i + Len(keyword) - 1)) = keyword}

\* C21: _has_housing_context returns True exactly for a text in which two
\* different keywords occur: not for "Random comment about pizza", for "The
\* rent and parking here are great", and not for one keyword occurring
\* several times.
C21_TwoDistinctKeywords ==
    Returned("_has_housing_context") =>
        /\ retval \in BOOLEAN
        /\ retval <=> (\E k1, k2 \in KeywordsHit(call.text) : k1 # k2)
        /\ call.text = "Random comment about pizza" => retval = FALSE
        /\ call.text = "The rent and parking here are great" => retval = TRUE
        /\ call.text = "rent, rent and more rent" => retval = FALSE

\* A keyword occurring three times, and no other, has been answered.
C21_Witness ==
    /\ Returned("_has_housing_context")
    /\ call.text = "rent, rent and more rent"
    /\ KeywordsHit(call.text) = {"rent"}
    /\ retval = FALSE

\* C22: generate_all_aliases("") returns, and what it returns holds the empty
\* string as its only alias, at confidence 1.0.
C22_EmptyNameOnlyEmptyAliasAtFull ==
    (Returned("generate_all_aliases") /\ call.apartment_name = "") =>
        /\ retval.original_name = ""
        /\ retval.aliases = {""}
        /\ DOMAIN retval.confidence_scores = {""}
        /\ retval.confidence_scores[""] = 100

\* The number words that occur in a name, whatever its case.
NumberWordsIn(name) ==
    {word \in DOMAIN number_words :
        \E i \in 1..(Len(name) - Len(word) + 1) :
            Lower(SubSeq(name, i, i + Len(word) - 1)) = word}

\* C23: for every number word that occurs in a name, the aliases returned
\* for the name hold the lowered name with that word replaced by its digits:
\* "5 points" for "Five Points".
C23_NumberWordAsDigits ==
    Returned("generate_all_aliases") =>
        /\ \A word \in NumberWordsIn(call.apartment_name) :
              Replace(Lower(call.apartment_name), word, number_words[word])
                 \in retval.aliases
        /\ call.apartment_name = "Five Points" => "5 points" \in retval.aliases

\* The aliases of "Five Points", whose only number word is "five", have been
\* returned with "5 points" among them.
C23_Witness ==
    /\ Returned("generate_all_aliases")
    /\ call.apartment_name = "Five Points"
    /\ NumberWordsIn(call.apartment_name) = {"five"}
    /\ "5 points" \in retval.aliases

\* The weight of the last pass of generate_all_aliases that produces an
\* alias of a name: location, number words, phonetic, short forms,
\* abbreviations, basic, from the last to the first; 100, the weight of the
\* lowered name, for what no pass produces.
LastPassWeight(name, alias) ==
    CASE alias \in LocationAliases(name) -> 75
      [] alias \in NumberAliases(name) -> 85
      [] alias \in PhoneticAliases(name) -> 60
      [] alias \in ShortFormAliases(name) -> 70
      [] alias \in AbbreviationAliases(name) -> 80
      [] alias \in BasicAliases(name) -> 90
      [] OTHER -> 100

\* C25: every alias returned by generate_all_aliases has the weight of the
\* last pass that produced it, whatever an earlier pass gave it.
C25_LastPassWins ==
    Returned("generate_all_aliases") =>
        /\ DOMAIN retval.confidence_scores = retval.aliases
        /\ \A alias \in retval.aliases :
              retval.confidence_scores[alias] = LastPassWeight(call.apartment_name, alias)

\* An alias produced by the basic pass (0.9) and again by the location pass
\* has been returned at 0.75.
C25_Witness ==
    /\ Returned("generate_all_aliases")
    /\ \E alias \in retval.aliases :
          /\ alias \in BasicAliases(call.apartment_name)
          /\ alias \in LocationAliases(call.apartment_name)
          /\ retval.confidence_scores[alias] = 75

\* C29: every tuple find_best_match returns, at any threshold, names an alias
\* of its apartment and the confidence stored for that alias: none has a
\* missing alias.
C29_MatchedAliasNeverMissing ==
    Returned("find_best_match") =>
        \A i \in 1..Len(retval) :
            /\ retval[i][3] # None
            /\ \E j \in 1..Len(AllAliasesList) :
                  /\ AllAliasesList[j].original_name = retval[i][1]
                  /\ retval[i][3] \in AllAliasesList[j].aliases
                  /\ retval[i][4] = Get(AllAliasesList[j].confidence_scores, retval[i][3], 50)

\* C26: an add_comment_validation that returns False leaves the store as it
\* was: the local file with its grid and comments, and the Supabase table.
C26_FalseLeavesStoreUnchanged ==
    [][(nadds' = nadds + 1 /\ op' = "add_comment_validation" /\ ret' = "False")
          => (store' = store /\ comment_validations' = comment_validations)]_vars

\* What the id of a validation without one is derived from.
IdFields(v) == <<v.source_apartment, v.mentioned_apartment, First100(v.comment_text)>>

\* C27: a validation without a comment id that differs from every stored
\* record in its source, its mentioned apartment or the first 100
\* characters of its text is stored beside them, overwriting none, and every
\* cell then counts the records stored for its pair.
C27_DerivedIdsNeverCollide ==
    [][(/\ nadds' = nadds + 1
        /\ use_local_storage
        /\ ret' = "True"
        /\ arg'.comment_id = ""
        /\ \A id \in DOMAIN comments : IdFields(comments[id]) # IdFields(arg'))
          => /\ Cardinality(DOMAIN comments') = Cardinality(DOMAIN comments) + 1
             /\ \A id \in DOMAIN comments : comments'[id] = comments[id]
             /\ (\A s \in DOMAIN validation_grid : \A m \in DOMAIN validation_grid[s] :
                    validation_grid[s][m].comment_count
                        = Cardinality({id \in DOMAIN comments :
                                         /\ comments[id].source_apartment = s
                                         /\ comments[id].mentioned_apartment = m}))
                => (\A s \in DOMAIN validation_grid' : \A m \in DOMAIN validation_grid'[s] :
                      validation_grid'[s][m].comment_count
                        = Cardinality({id \in DOMAIN comments' :
                                         /\ comments'[id].source_apartment = s
                                         /\ comments'[id].mentioned_apartment = m}))
       ]_vars

\* The validations handed to add_comment_validation for one result and one
\* apartment it mentions: their places in the order of the calls.
IssuedFor(source_apartment, res, mentioned_apt) ==
    {k \in 1..Len(issued) :
        /\ issued[k].source_apartment = source_apartment
        /\ issued[k].mentioned_apartment = mentioned_apt
        /\ issued[k].reddit_post_id = res.post_id
        /\ issued[k].reddit_comment_id = res.comment_id}

\* C24: _validate_results hands over, for every result and every apartment
\* it mentions other than the source, exactly one validation of that source
\* and that apartment, pending, with the score of the mention; it hands over
\* nothing else, so never the source with itself; and it returns the results
\* that mention something, the source alone included, in their order.
C24_OneValidationPerOtherMention ==
    (Returned("_validate_results") /\ retval # "raised") =>
        /\ \A i \in 1..Len(call.results) :
              \A apt \in Range(call.results[i].mentioned_apartments) \ {call.source_apartment} :
                 \E k \in 1..Len(issued) :
                    /\ IssuedFor(call.source_apartment, call.results[i], apt) = {k}
                    /\ issued[k].validation_status = "pending"
                    /\ issued[k].confidence_score
                         = Get(call.results[i].confidence_scores, apt, DefaultConfidence)
        /\ \A k \in 1..Len(issued) :
              /\ issued[k].source_apartment = call.source_apartment
              /\ issued[k].mentioned_apartment # call.source_apartment
              /\ \E i \in 1..Len(call.results) :
                    /\ issued[k].mentioned_apartment
                         \in Range(call.results[i].mentioned_apartments)
                    /\ issued[k].reddit_post_id = call.results[i].post_id
                    /\ issued[k].reddit_comment_id = call.results[i].comment_id
        /\ retval = SelectSeq(call.results, LAMBDA res : res.mentioned_apartments # <<>>)

\* A list with a cross-reference, a result that mentions nothing and one that
\* mentions the source alone has been validated: one validation was handed
\* over, the result without a mention was dropped and the other two returned.
C24_Witness ==
    /\ Returned("_validate_results")
    /\ Len(issued) = 1
    /\ Len(call.results) = 3
    /\ Len(retval) = 2
    /\ retval[2].mentioned_apartments = <<call.source_apartment>>

\* The results of a list that are the first of their post and comment, in
\* the order of the list.
FirstOfTheirKind(results) ==
    LET firsts == {i \in 1..Len(results) :
                    \A j \in 1..(i - 1) :
                        \/ results[j].post_id # results[i].post_id
                        \/ results[j].comment_id # results[i].comment_id}
    IN  [k \in 1..Cardinality(firsts) |->
            results[CHOOSE i \in firsts : Cardinality({j \in firsts : j <= i}) = k]]

\* C28: of the results that the search terms and subreddits of one
\* search_reddit_for_apartment retrieved, the first of every post and of
\* every comment is kept, in the order retrieved, and no other; so the search
\* hands over at most one validation for a post or comment and an apartment
\* it mentions.
C28_FirstResultPerPostAndComment ==
    Returned("search_reddit_for_apartment") =>
        /\ retval # "raised" =>
              retval = FirstOfTheirKind(CollectResults(call.reddit, call.apartment_name))
        /\ \A k1, k2 \in 1..Len(issued) :
              (/\ issued[k1].reddit_post_id = issued[k2].reddit_post_id
               /\ issued[k1].reddit_comment_id = issued[k2].reddit_comment_id
               /\ issued[k1].mentioned_apartment = issued[k2].mentioned_apartment)
                 => k1 = k2

\* A search has retrieved a post and one of its comments more than once, has
\* kept each once and has handed over validations for both.
C28_Witness ==
    /\ Returned("search_reddit_for_apartment")
    /\ retval # "raised"
    /\ Len(retval) = 2
    /\ retval[1].post_id = retval[2].post_id
    /\ retval[1].comment_id = ""
    /\ retval[2].comment_id # ""
    /\ Len(CollectResults(call.reddit, call.apartment_name)) > 2
    /\ \E k1, k2 \in 1..Len(issued) :
          /\ issued[k1].reddit_comment_id = ""
          /\ issued[k2].reddit_comment_id # ""

\* C30: a request that raises and a post whose comments raise cost a search
\* nothing else: every recent post that a request which did not raise found,
\* and that has housing context and mentions an apartment, is among the
\* results returned, whatever other requests raised and whether or not its
\* comments could be read; and search_all_apartments returns an entry, a
\* list, for every apartment loaded.
C30_FailuresIsolated ==
    /\ (Returned("search_reddit_for_apartment") /\ retval # "raised") =>
          \A k \in 1..Len(SearchTerms(call.apartment_name)) :
             \A s \in 1..Len(target_subreddits) :
                ~SearchRaises(call.reddit, k, target_subreddits[s]) =>
                   \A p \in 1..Len(call.reddit.posts) :
                      (/\ target_subreddits[s] \in call.reddit.posts[p].subreddits
                       /\ In(SearchTerms(call.apartment_name)[k][1],
                             Lower(PostText(call.reddit.posts[p])))
                       /\ call.reddit.posts[p].created_utc >= time_threshold
                       /\ HasHousingContext(PostText(call.reddit.posts[p]))
                       /\ DOMAIN MentionedApartments(PostText(call.reddit.posts[p])) # {})
                        => \E i \in 1..Len(retval) :
                              /\ retval[i].post_id = call.reddit.posts[p].id
                              /\ retval[i].comment_id = ""
    /\ Returned("search_all_apartments") =>
          /\ DOMAIN retval = Range(apartment_names)
          /\ \A apartment \in DOMAIN retval :
                \A i \in 1..Len(retval[apartment]) :
                    retval[apartment][i].source_apartment = apartment

\* search_all_apartments has returned although requests raised: one
\* apartment has results, another has the empty list.
C30_Witness ==
    /\ Returned("search_all_apartments")
    /\ call.reddit.raising # {}
    /\ \E apartment \in DOMAIN retval : retval[apartment] # <<>>
    /\ \E apartment \in DOMAIN retval : retval[apartment] = <<>>

====
